---- MODULE Spec2Model ----
(***************************************************************************)
(* Model of the ESP-AT network-module bridge of grblHAL/Plugins_misc       *)
(* (src/esp_at.c): the byte ring buffer rxbuf, the inline disconnect       *)
(* scanner esp_at_receive, and the connection state machine made of the    *)
(* scheduled steps esp_at_initialize, await_connect, await_connected and   *)
(* close_session.                                                          *)
(*                                                                         *)
(* Bytes are modelled as short strings: printable characters stand for     *)
(* themselves, "CR", "LF", "CAN" and "NUL" for the control characters,     *)
(* "x" for any payload byte that starts no pattern and "?" for a byte the  *)
(* realtime-command predicate of the core claims.                          *)
(***************************************************************************)
EXTENDS Integers, Sequences, FiniteSets, TLC

VARIABLES
    rxbuf,                      \* stream_rx_buffer_t rxbuf: data, head, tail, overflow
    enqueue_realtime_command,   \* the realtime predicate of the virtual stream
    cmd,                        \* esp_at_receive: static uint32_t cmd
    s,                          \* esp_at_receive: static const char *s (offset into cmds[cmd], or NULL)
    rt_handler,                 \* the per-byte handler installed on at_cmd_stream
    session_stream,             \* static const io_stream_t *session_stream
    timeout,                    \* static uint32_t timeout
    esp_at_running,             \* static bool esp_at_running
    buf,                        \* static char buf[130], as the characters written from index 0
    idx,                        \* await_connect: static uint_fast8_t idx
    tasks,                      \* the core's scheduler: pending count of each scheduled step
    mode,                       \* esp_at_settings.mode
    fed,                        \* history: bytes handed to esp_at_receive since it was installed
    got,                        \* history: bytes returned by atStreamGetC since then
    base,                       \* history: unread ring content when esp_at_receive was installed
    pending,                    \* history: the ring buffer as a queue, the bytes accepted and not yet
                                \* read or discarded
    nclose,                     \* history: close_session events scheduled by esp_at_receive since then
    ev,                         \* history: the last operation, its input and what it did
    init_ok,                    \* history: how esp_at_initialize ended ("pending" before it ran)
    free,                       \* remaining budget of unsolicited input (see MaxFree, MaxInput)
    drv                         \* the foreground call in progress.  Command/response driver: its
                                \* cursor char *s as an index into buf, its caller's loop, its last
                                \* return; read path of the virtual stream: the accesses made so far

vars == << rxbuf, enqueue_realtime_command, cmd, s, rt_handler, session_stream,
           timeout, esp_at_running, buf, idx, tasks, mode,
           fed, got, base, pending, nclose, ev, init_ok, free, drv >>

----------------------------------------------------------------------------
(* Bounds of the model *)

\* Size of the ring buffer (RX_BUFFER_SIZE of the core, 1024 there).
RX_BUFFER_SIZE == 20

\* Input bytes, per run, that do not continue an occurrence of a pattern.
MaxFree == 2

\* Pending instances of one step the scheduler model keeps track of.
MaxTasks == 2

\* Per run of the connection state machine: lines and bytes that the module
\* sends of its own accord (they continue nothing it has begun to send), and
\* reads of the foreground consumer.
MaxInput == 3

\* Bytes pushed towards a ring buffer that is nearly full (SpecRing).
MaxPush == 4

\* Per run of the command/response driver (SpecCmd), in half units: a call
\* begun by esp_at_initialize and a line begun by the module take two each, a
\* blank line and a line left unfinished one more each.
MaxDrv == 8

\* Bytes of one line that the model follows past the end of buf.
MaxOver == 1

\* Polls await_connected makes on a budget that send_command has overwritten
\* (such a budget is the tick count and runs for seconds).
MaxStale == 2

----------------------------------------------------------------------------
(* Characters *)

NULL == -1
NO_DATA == "NO_DATA"            \* SERIAL_NO_DATA, the -1 a read returns
ASCII_CR == "CR"
ASCII_LF == "LF"
ASCII_CAN == "CAN"
NUL == "NUL"

\* src/esp_at.c:373-379
cmds ==
    << << "C", "L", "O", "S", "E", "D", "CR", "LF" >>,
       << "+", "S", "T", "A", "_", "D", "I", "S", "C", "O", "N", "N", "E", "C", "T", "E", "D", ":" >>,
       << "W", "I", "F", "I", " ", "D", "I", "S", "C", "O", "N", "N", "E", "C", "T", "CR", "LF" >> >>

\* *(cmds[n] + off): the character at 0-based offset off, NUL at the end
CharAt(n, off) == IF off < Len(cmds[n]) THEN cmds[n][off + 1] ELSE NUL

\* The bytes the environment tries at every position of the input: the three
\* pattern starts, a plain payload byte, the two line terminators and a byte
\* the realtime predicate claims.
Probe == { "C", "+", "W", "x", "CR", "LF", "?" }

\* The command/response driver between calls: no call in progress, nothing
\* returned yet
DrvIdle ==
    [ fn |-> "idle", caller |-> "none", w |-> 0, wr |-> -1, c |-> NO_DATA,
      done |-> "none", ret |-> "none", why |-> "none", ok |-> FALSE,
      joined |-> "none", result |-> "none", lines |-> << >> ]

----------------------------------------------------------------------------
(* Ring buffer: src/esp_at.c:125-242 *)

BUFNEXT(p) == (p + 1) % RX_BUFFER_SIZE

BUFCOUNT(head, tail) == (head - tail + RX_BUFFER_SIZE) % RX_BUFFER_SIZE

\* The realtime predicates a stream can carry.  protocol_enqueue_realtime_command
\* claims realtime command characters; stream_buffer_all claims nothing.
RtClaims(h, c) == h = "protocol_enqueue_realtime_command" /\ c = "?"

\* atStream_rx_insert storing the byte at the incremented index
atStream_rx_insert_wrong_slot(rb, h, c) ==
    IF RtClaims(h, c) THEN rb
    ELSE LET next_head == BUFNEXT(rb.head)
         IN  IF next_head = rb.tail
             THEN [rb EXCEPT !.overflow = 1]
             ELSE [rb EXCEPT !.data[next_head] = c, !.head = next_head]

\* atStream_rx_insert storing the byte also when the buffer is full
atStream_rx_insert_overwrites(rb, h, c) ==
    IF RtClaims(h, c) THEN rb
    ELSE LET next_head == BUFNEXT(rb.head)
         IN  IF next_head = rb.tail
             THEN [rb EXCEPT !.overflow = 1, !.data[rb.head] = c, !.head = next_head]
             ELSE [rb EXCEPT !.data[rb.head] = c, !.head = next_head]

\* atStream_rx_insert
atStream_rx_insert(rb, h, c) ==
    IF RtClaims(h, c) THEN rb
    ELSE LET next_head == BUFNEXT(rb.head)
         IN  IF next_head = rb.tail
             THEN [rb EXCEPT !.overflow = 1]
             ELSE [rb EXCEPT !.data[rb.head] = c, !.head = next_head]

\* atStream_rx_insert applied to the bytes of cs, first to last
RECURSIVE InsertAll(_, _, _)
InsertAll(rb, h, cs) ==
    IF cs = << >> THEN rb
    ELSE InsertAll(atStream_rx_insert(rb, h, Head(cs)), h, Tail(cs))

\* atStreamRxFlush
atStreamRxFlush(rb) == [rb EXCEPT !.tail = rb.head]

\* atStreamRxCancel adding the CAN without discarding what is unread
atStreamRxCancel_keeps_tail(rb) ==
    [rb EXCEPT !.data[rb.head] = ASCII_CAN, !.head = BUFNEXT(rb.head)]

\* atStreamRxCancel leaving head where it was
atStreamRxCancel_no_advance(rb) ==
    [rb EXCEPT !.data[rb.head] = ASCII_CAN, !.tail = rb.head]

\* atStreamRxCancel
atStreamRxCancel(rb) ==
    [rb EXCEPT !.data[rb.head] = ASCII_CAN, !.tail = rb.head, !.head = BUFNEXT(rb.head)]

\* atStreamSetRtHandler installing a null handler too
atStreamSetRtHandler_accepts_null(cur, handler) ==
    [ enqueue_realtime_command |-> handler, prev |-> cur ]

\* atStreamSetRtHandler: the predicate in force after the call and the value
\* returned; a null handler is the string "NULL"
atStreamSetRtHandler(cur, handler) ==
    [ enqueue_realtime_command |-> IF handler # "NULL" THEN handler ELSE cur,
      prev |-> cur ]

\* atStreamRxFree
atStreamRxFree(rb) == RX_BUFFER_SIZE - BUFCOUNT(rb.head, rb.tail)

\* The unread bytes, oldest first: what successive atStreamGetC calls return
Unread(rb) ==
    [ i \in 1..BUFCOUNT(rb.head, rb.tail) |-> rb.data[(rb.tail + i - 1) % RX_BUFFER_SIZE] ]

----------------------------------------------------------------------------
(* Inline disconnect scanner: src/esp_at.c:371-419 *)

\* esp_at_receive with the replay loop starting one byte late
esp_at_receive_short_replay(n, p, c) ==
    IF p = NULL /\ c \in { "C", "+", "W" }
    THEN [ cmd |-> IF c = "C" THEN 1 ELSE IF c = "+" THEN 2 ELSE 3,
           s |-> 0, ins |-> << >>, close |-> FALSE ]
    ELSE IF n # 0
    THEN LET adv    == CharAt(n, p) # NUL
             p1     == IF adv THEN p + 1 ELSE p
             replay == adv /\ c # CharAt(n, p1) /\ CharAt(n, p1) # NUL
             ins    == IF replay THEN SubSeq(cmds[n], 2, p1) \o << c >> ELSE << >>
             n1     == IF replay THEN 0 ELSE n
         IN  IF c = ASCII_LF
             THEN [ cmd |-> 0, s |-> NULL, ins |-> ins, close |-> TRUE ]
             ELSE [ cmd |-> n1, s |-> p1, ins |-> ins, close |-> FALSE ]
    ELSE IF c = ASCII_CR \/ c = ASCII_LF
         THEN [ cmd |-> 0, s |-> NULL, ins |-> << c >>, close |-> FALSE ]
         ELSE [ cmd |-> n, s |-> p, ins |-> << c >>, close |-> FALSE ]

\* esp_at_receive without the reset of s after queueing close_session
esp_at_receive_no_reset(n, p, c) ==
    IF p = NULL /\ c \in { "C", "+", "W" }
    THEN [ cmd |-> IF c = "C" THEN 1 ELSE IF c = "+" THEN 2 ELSE 3,
           s |-> 0, ins |-> << >>, close |-> FALSE ]
    ELSE IF n # 0
    THEN LET adv    == CharAt(n, p) # NUL
             p1     == IF adv THEN p + 1 ELSE p
             replay == adv /\ c # CharAt(n, p1) /\ CharAt(n, p1) # NUL
             ins    == IF replay THEN SubSeq(cmds[n], 1, p1) \o << c >> ELSE << >>
             n1     == IF replay THEN 0 ELSE n
         IN  IF c = ASCII_LF
             THEN [ cmd |-> 0, s |-> p1, ins |-> ins, close |-> TRUE ]
             ELSE [ cmd |-> n1, s |-> p1, ins |-> ins, close |-> FALSE ]
    ELSE IF c = ASCII_CR \/ c = ASCII_LF
         THEN [ cmd |-> 0, s |-> NULL, ins |-> << c >>, close |-> FALSE ]
         ELSE [ cmd |-> n, s |-> p, ins |-> << c >>, close |-> FALSE ]

\* esp_at_receive replaying also when the candidate was matched to its end
esp_at_receive_replays_at_end(n, p, c) ==
    IF p = NULL /\ c \in { "C", "+", "W" }
    THEN [ cmd |-> IF c = "C" THEN 1 ELSE IF c = "+" THEN 2 ELSE 3,
           s |-> 0, ins |-> << >>, close |-> FALSE ]
    ELSE IF n # 0
    THEN LET adv    == CharAt(n, p) # NUL
             p1     == IF adv THEN p + 1 ELSE p
             replay == adv /\ c # CharAt(n, p1)
             ins    == IF replay THEN SubSeq(cmds[n], 1, p1) \o << c >> ELSE << >>
             n1     == IF replay THEN 0 ELSE n
         IN  IF c = ASCII_LF
             THEN [ cmd |-> 0, s |-> NULL, ins |-> ins, close |-> TRUE ]
             ELSE [ cmd |-> n1, s |-> p1, ins |-> ins, close |-> FALSE ]
    ELSE IF c = ASCII_CR \/ c = ASCII_LF
         THEN [ cmd |-> 0, s |-> NULL, ins |-> << c >>, close |-> FALSE ]
         ELSE [ cmd |-> n, s |-> p, ins |-> << c >>, close |-> FALSE ]

\* esp_at_receive advancing s without the test for the end of the pattern
esp_at_receive_advances_past_end(n, p, c) ==
    IF p = NULL /\ c \in { "C", "+", "W" }
    THEN [ cmd |-> IF c = "C" THEN 1 ELSE IF c = "+" THEN 2 ELSE 3,
           s |-> 0, ins |-> << >>, close |-> FALSE ]
    ELSE IF n # 0
    THEN LET p1     == p + 1
             replay == c # CharAt(n, p1) /\ CharAt(n, p1) # NUL
             ins    == IF replay THEN SubSeq(cmds[n], 1, p1) \o << c >> ELSE << >>
             n1     == IF replay THEN 0 ELSE n
         IN  IF c = ASCII_LF
             THEN [ cmd |-> 0, s |-> NULL, ins |-> ins, close |-> TRUE ]
             ELSE [ cmd |-> n1, s |-> p1, ins |-> ins, close |-> FALSE ]
    ELSE IF c = ASCII_CR \/ c = ASCII_LF
         THEN [ cmd |-> 0, s |-> NULL, ins |-> << c >>, close |-> FALSE ]
         ELSE [ cmd |-> n, s |-> p, ins |-> << c >>, close |-> FALSE ]

\* One call of esp_at_receive(c) with the statics cmd = n and s = p: the new
\* statics, the bytes handed to atStream_rx_insert in order, and whether
\* close_session was queued with task_add_immediate.
esp_at_receive(n, p, c) ==
    IF p = NULL /\ c \in { "C", "+", "W" }
    THEN [ cmd |-> IF c = "C" THEN 1 ELSE IF c = "+" THEN 2 ELSE 3,
           s |-> 0, ins |-> << >>, close |-> FALSE ]
    ELSE IF n # 0
    THEN LET adv    == CharAt(n, p) # NUL
             p1     == IF adv THEN p + 1 ELSE p
             replay == adv /\ c # CharAt(n, p1) /\ CharAt(n, p1) # NUL
             ins    == IF replay THEN SubSeq(cmds[n], 1, p1) \o << c >> ELSE << >>
             n1     == IF replay THEN 0 ELSE n
         IN  IF c = ASCII_LF
             THEN [ cmd |-> 0, s |-> NULL, ins |-> ins, close |-> TRUE ]
             ELSE [ cmd |-> n1, s |-> p1, ins |-> ins, close |-> FALSE ]
    ELSE IF c = ASCII_CR \/ c = ASCII_LF
         THEN [ cmd |-> 0, s |-> NULL, ins |-> << c >>, close |-> FALSE ]
         ELSE [ cmd |-> n, s |-> p, ins |-> << c >>, close |-> FALSE ]

\* The replay loop of esp_at_receive, do { atStream_rx_insert(*s2++); }
\* while(s2 != s), from s2 on with s = cmds[n] + p1: the bytes it pushes and
\* whether it ends before s2 leaves the string
RECURSIVE replay_loop(_, _, _, _)
replay_loop(n, s2, p1, out) ==
    LET out1 == Append(out, CharAt(n, s2))
    IN  IF s2 + 1 = p1 THEN [ bytes |-> out1, ends |-> TRUE ]
        ELSE IF s2 + 1 > Len(cmds[n]) THEN [ bytes |-> out1, ends |-> FALSE ]
        ELSE replay_loop(n, s2 + 1, p1, out1)

----------------------------------------------------------------------------
(* History bookkeeping *)

Ev(op, c, n0, p0, ins, close, arg) ==
    [ op |-> op, c |-> c, cmd0 |-> n0, s0 |-> p0, ins |-> ins, close |-> close, arg |-> arg ]

\* An operation of the state machine: its name, the byte it read (if any), and
\* arg, the replies and results it drew and the state it started from
OpEv(op, c, arg) == Ev(op, c, 0, NULL, << >>, FALSE, arg)

PatternBytes == UNION { { cmds[n][k] : k \in 1..Len(cmds[n]) } : n \in 1..3 }

\* The last k elements of q
Suffix(q, k) == SubSeq(q, Len(q) - k + 1, Len(q))

\* The bytes that would continue an occurrence of a pattern begun at the end of q
Continues(q) ==
    { cmds[nk[1]][nk[2] + 1] :
        nk \in { x \in UNION { { << n, k >> : k \in 1..(Len(cmds[n]) - 1) } : n \in 1..3 } :
                    x[2] <= Len(q) /\ Suffix(q, x[2]) = SubSeq(cmds[x[1]], 1, x[2]) } }

\* The queue q after the bytes cs were offered to it: a byte the realtime
\* predicate h claims is not offered, and a queue of RX_BUFFER_SIZE - 1 bytes
\* accepts nothing
RECURSIVE QueueAll(_, _, _)
QueueAll(q, h, cs) ==
    IF cs = << >> THEN q
    ELSE QueueAll(IF RtClaims(h, Head(cs)) \/ Len(q) >= RX_BUFFER_SIZE - 1 THEN q
                  ELSE Append(q, Head(cs)),
                  h, Tail(cs))

\* q ends with a complete occurrence of pattern n
EndsWith(q, n) == Len(q) >= Len(cmds[n]) /\ Suffix(q, Len(cmds[n])) = cmds[n]

\* q contains a complete occurrence of some pattern
ContainsPattern(q) ==
    \E n \in 1..3 : \E i \in 1..Len(q) :
        i + Len(cmds[n]) - 1 <= Len(q) /\ SubSeq(q, i, i + Len(cmds[n]) - 1) = cmds[n]

----------------------------------------------------------------------------
(* The virtual stream's read path and the scanner as steps of the system *)

\* atStreamGetC: src/esp_at.c:197-208
atStreamGetC(rb) ==
    IF rb.tail = rb.head
    THEN [ c |-> NO_DATA, rb |-> rb ]
    ELSE [ c |-> rb.data[rb.tail], rb |-> [rb EXCEPT !.tail = BUFNEXT(rb.tail)] ]

\* The foreground consumer polls the virtual stream
GetC ==
    /\ session_stream # "NULL"
    /\ free >= 1
    /\ free' = free - 1
    /\ LET r == atStreamGetC(rxbuf)
       IN  /\ rxbuf' = r.rb
           /\ got' = IF r.c = NO_DATA THEN got ELSE Append(got, r.c)
           /\ pending' = IF pending = << >> THEN pending ELSE Tail(pending)
           /\ ev' = Ev("getc", r.c, cmd, s, << >>, FALSE, << >>)
    /\ UNCHANGED << enqueue_realtime_command, cmd, s, rt_handler, session_stream,
                    timeout, esp_at_running, buf, idx, tasks, mode,
                    fed, base, nclose, init_ok, drv >>

\* task_add_immediate / task_add_delayed of the core: one more pending instance
TaskAdd(ts, fn) == [ts EXCEPT ![fn] = IF @ < MaxTasks THEN @ + 1 ELSE @]

\* The module stream's receive interrupt hands byte c to the installed handler
Receive(c, spend) ==
    /\ rt_handler = "esp_at_receive"
    /\ free >= spend
    /\ free' = free - spend
    /\ LET r == esp_at_receive(cmd, s, c)
       IN  /\ cmd' = r.cmd
           /\ s' = r.s
           /\ rxbuf' = InsertAll(rxbuf, enqueue_realtime_command, r.ins)
           /\ pending' = QueueAll(pending, enqueue_realtime_command, r.ins)
           /\ tasks' = IF r.close THEN TaskAdd(tasks, "close_session") ELSE tasks
           /\ nclose' = IF r.close THEN nclose + 1 ELSE nclose
           /\ ev' = Ev("receive", c, cmd, s, r.ins, r.close, [ rb |-> rxbuf ])
    /\ fed' = Append(fed, c)
    /\ UNCHANGED << enqueue_realtime_command, rt_handler, session_stream,
                    timeout, esp_at_running, buf, idx, mode, got, base, init_ok, drv >>

----------------------------------------------------------------------------
(* The scanner and the read path alone, from the state in which             *)
(* await_connected has just installed esp_at_receive                        *)

TaskNames == { "esp_at_startup", "esp_at_initialize", "await_connect", "await_connected",
               "close_session" }

NoTasks == [ fn \in TaskNames |-> 0 ]

Bytes == PatternBytes \cup Probe

InitScan ==
    /\ rxbuf = atStreamRxCancel([ data |-> [ i \in 0..(RX_BUFFER_SIZE - 1) |-> NUL ],
                                  head |-> 0, tail |-> 0, overflow |-> 0 ])
    /\ base = << ASCII_CAN >>
    /\ pending = << ASCII_CAN >>
    /\ enqueue_realtime_command = "protocol_enqueue_realtime_command"
    /\ cmd = 0
    /\ s = NULL
    /\ rt_handler = "esp_at_receive"
    /\ session_stream = "telnet_stream"
    /\ timeout = 10
    /\ esp_at_running = TRUE
    /\ buf = << "O", "K", NUL, "O", "N", "N", "E", "C", "T", NUL >>
    /\ idx = 0
    /\ tasks = NoTasks
    /\ mode = "STA"
    /\ fed = << >>
    /\ got = << >>
    /\ nclose = 0
    /\ init_ok = "ok"
    /\ ev = OpEv("await_connected", ">",
                 [ tasks |-> [ NoTasks EXCEPT !["await_connected"] = 1 ], timeout |-> 10 ])
    /\ free = MaxFree
    /\ drv = DrvIdle

NextScan ==
    LET K == Continues(fed)
    IN  \/ \E c \in K : Receive(c, 0)
        \/ \E c \in Probe \ K : Receive(c, 1)

SpecScan == InitScan /\ [][NextScan]_vars

----------------------------------------------------------------------------
(* The ring buffer near its capacity: producer and consumer operations *)

\* reset_read_buffer of the virtual stream, called by the foreground consumer
Flush ==
    /\ session_stream # "NULL"
    /\ free >= 1
    /\ free' = free - 1
    /\ rxbuf' = atStreamRxFlush(rxbuf)
    /\ pending' = << >>
    /\ ev' = Ev("flush", NO_DATA, cmd, s, << >>, FALSE, [ rb |-> rxbuf ])
    /\ UNCHANGED << enqueue_realtime_command, cmd, s, rt_handler, session_stream,
                    timeout, esp_at_running, buf, idx, tasks, mode,
                    fed, got, base, nclose, init_ok, drv >>

\* cancel_read_buffer of the virtual stream, called by the foreground consumer
Cancel ==
    /\ session_stream # "NULL"
    /\ free >= 1
    /\ free' = free - 1
    /\ rxbuf' = atStreamRxCancel(rxbuf)
    /\ pending' = << ASCII_CAN >>
    /\ ev' = Ev("cancel", NO_DATA, cmd, s, << >>, FALSE, [ rb |-> rxbuf ])
    /\ UNCHANGED << enqueue_realtime_command, cmd, s, rt_handler, session_stream,
                    timeout, esp_at_running, buf, idx, tasks, mode,
                    fed, got, base, nclose, init_ok, drv >>

\* The realtime predicates of the core a consumer installs, and no handler
RtHandlers == { "protocol_enqueue_realtime_command", "stream_buffer_all", "NULL" }

\* set_enqueue_rt_handler of the virtual stream, called by the foreground
\* consumer with handler
SetRtHandler(handler) ==
    /\ session_stream # "NULL"
    /\ free >= 1
    /\ free' = free - 1
    /\ LET r == atStreamSetRtHandler(enqueue_realtime_command, handler)
       IN  /\ enqueue_realtime_command' = r.enqueue_realtime_command
           /\ ev' = Ev("set_rt_handler", NO_DATA, cmd, s, << >>, FALSE,
                       [ rb |-> rxbuf, handler |-> handler, prev |-> r.prev ])
    /\ UNCHANGED << rxbuf, cmd, s, rt_handler, session_stream,
                    timeout, esp_at_running, buf, idx, tasks, mode,
                    fed, got, base, pending, nclose, init_ok, drv >>

\* A payload that fills the ring but for one slot: 'WIFI DISCONNECT' CR, which
\* the scanner holds back, and a byte that is not the line feed, at which it
\* replays all of it
RingFill == SubSeq(cmds[3], 1, 16) \o << "x" >>

\* The scanner, the ring and the histories after the bytes q were received
\* in state st
RECURSIVE ScanRun(_, _)
ScanRun(st, q) ==
    IF q = << >> THEN st
    ELSE LET r == esp_at_receive(st.cmd, st.s, Head(q))
             h == "protocol_enqueue_realtime_command"
         IN  ScanRun([ cmd     |-> r.cmd,
                       s       |-> r.s,
                       rb      |-> InsertAll(st.rb, h, r.ins),
                       pending |-> QueueAll(st.pending, h, r.ins),
                       ev      |-> Ev("receive", Head(q), st.cmd, st.s, r.ins, r.close,
                                      [ rb |-> st.rb ]) ],
                     Tail(q))

\* Bytes that are pushed as payload, or claimed as realtime commands, once
\* the scanner has replayed RingFill
Payload == { "x", "C", "?" }

\* The session of InitScan after the module has sent RingFill
InitRing ==
    LET st0 == [ cmd |-> 0, s |-> NULL,
                 rb |-> atStreamRxCancel([ data |-> [ i \in 0..(RX_BUFFER_SIZE - 1) |-> NUL ],
                                           head |-> 0, tail |-> 0, overflow |-> 0 ]),
                 pending |-> << ASCII_CAN >>,
                 ev |-> OpEv("await_connected", ">", << >>) ]
        st  == ScanRun(st0, RingFill)
    IN  /\ rxbuf = st.rb
        /\ pending = st.pending
        /\ cmd = st.cmd
        /\ s = st.s
        /\ ev = st.ev
        /\ fed = RingFill
        /\ base = << ASCII_CAN >>
        /\ enqueue_realtime_command = "protocol_enqueue_realtime_command"
        /\ rt_handler = "esp_at_receive"
        /\ session_stream = "telnet_stream"
        /\ timeout = 10
        /\ esp_at_running = TRUE
        /\ buf = << "O", "K", NUL, "O", "N", "N", "E", "C", "T", NUL >>
        /\ idx = 0
        /\ tasks = NoTasks
        /\ mode = "STA"
        /\ got = << >>
        /\ nclose = 0
        /\ init_ok = "ok"
        /\ free = MaxFree
        /\ drv = DrvIdle

NextRing ==
    \/ /\ Len(fed) < Len(RingFill) + MaxPush
       /\ \E c \in Payload : Receive(c, 0)
    \/ GetC
    \/ Flush
    \/ Cancel
    \/ \E handler \in RtHandlers : SetRtHandler(handler)

SpecRing == InitRing /\ [][NextRing]_vars

----------------------------------------------------------------------------
(* Command/response driver, as far as the state machine depends on it *)

\* sizeof(buf)
BUF_SIZE == 130

\* Delay of esp_at_initialize after start-up: the least hal.get_elapsed_ticks()
\* any send_command can see
INIT_DELAY == 1500

\* Added to the tick count by send_command
SEND_TIMEOUT == 1000

\* Retry budget of await_connected
PROMPT_POLLS == 10

\* Delay in ms of the next poll of await_connect when no byte was available
IDLE_DELAY == 200

\* Delay in ms of the next poll of await_connect when a byte was read
POLL_DELAY == 2

\* What a command exchange with the module can end in: an "OK" line, an
\* "ERROR" line, or no reply line before the timeout
Replies == { "OK", "ERROR", "TIMEOUT" }

\* buf[i], 0-based; the static array is zero-initialised
BufAt(b, i) == IF i < Len(b) THEN b[i + 1] ELSE NUL

\* buf[i] = c
BufPut(b, i, c) ==
    [ k \in 1..(IF i + 1 > Len(b) THEN i + 1 ELSE Len(b)) |->
        IF k = i + 1 THEN c ELSE BufAt(b, k - 1) ]

\* line written from buf[0] on and terminated with NUL
BufLine(b, line) ==
    [ k \in 1..(IF Len(line) + 1 > Len(b) THEN Len(line) + 1 ELSE Len(b)) |->
        IF k <= Len(line) THEN line[k] ELSE IF k = Len(line) + 1 THEN NUL ELSE b[k] ]

\* The C string that starts at buf[0]
CStr(b) ==
    LET nul == { k \in 1..Len(b) : b[k] = NUL }
        n   == IF nul = { } THEN Len(b) ELSE (CHOOSE k \in nul : \A j \in nul : k <= j) - 1
    IN  SubSeq(b, 1, n)

\* send_command: the reply line is left in buf, the static timeout is
\* overwritten, and the result is whether the line is "OK"
send_command(b, reply) ==
    [ ok      |-> reply = "OK",
      buf     |-> IF reply = "OK" THEN BufLine(b, << "O", "K" >>)
                  ELSE IF reply = "ERROR" THEN BufLine(b, << "E", "R", "R", "O", "R" >>)
                  ELSE BufPut(b, 0, NUL),
      timeout |-> INIT_DELAY + SEND_TIMEOUT ]

\* start_sta / start_ap: the result of the branch's command sequence
start_branch(b, reply) == [ ok |-> reply = "OK", buf |-> send_command(b, reply).buf ]

----------------------------------------------------------------------------
(* Connection state machine: src/esp_at.c:339-490, 681-784 *)

ConnectLine == << "0", ",", "C", "O", "N", "N", "E", "C", "T" >>

\* Bytes other than pattern continuations that arrive while bridging
ProbeBridge == { "C", "x", "LF" }

\* close_session with replies r1 (AT+CIPMODE=0) and r2 (AT+CWQIF): the
\* scheduler, buf and timeout it leaves, whether it re-armed await_connect,
\* and the calls it made, in their order, after it detached the consumer
close_session(ts, b, md, r1, r2) ==
    LET c1 == send_command(b, r1)
        c2 == IF c1.ok /\ md = "AP" THEN send_command(c1.buf, r2) ELSE c1
    IN  [ tasks   |-> IF c1.ok THEN TaskAdd(ts, "await_connect") ELSE ts,
          buf     |-> c2.buf,
          timeout |-> c2.timeout,
          ok      |-> c1.ok,
          steps   |-> << "set_enqueue_rt_handler", "delay_ms 20", "write +++",
                         "delay_ms 1000", "AT+CIPMODE=0" >>
                      \o (IF c1.ok /\ md = "AP" THEN << "AT+CWQIF" >> ELSE << >>)
                      \o (IF c1.ok THEN << "task_add await_connect" >> ELSE << >>)
                      \o << "at_cmd_stream.reset_read_buffer" >> ]

\* The replies that matter for the second command of close_session
CloseReplies2 == IF mode = "AP" THEN Replies ELSE { "OK" }

\* The scheduler runs a pending instance of step fn
Take(fn) == [tasks EXCEPT ![fn] = @ - 1]

\* esp_at_startup: src/esp_at.c:770-784
EspAtStartup ==
    /\ tasks["esp_at_startup"] > 0
    /\ tasks' = TaskAdd(Take("esp_at_startup"), "esp_at_initialize")
    /\ ev' = OpEv("esp_at_startup", NO_DATA, << >>)
    /\ UNCHANGED << rxbuf, enqueue_realtime_command, cmd, s, rt_handler, session_stream,
                    timeout, esp_at_running, buf, idx, mode,
                    fed, got, base, pending, nclose, init_ok, free, drv >>

\* esp_at_initialize: src/esp_at.c:681-749.  r1, r2: replies to ATE0; rc, rq:
\* replies inside the recovering close_session; ry: reply to AT+SYSMSG=4;
\* sr: whether the module reports a running server; rs: reply to
\* AT+CIPSERVER=0,1; rb: outcome of start_sta/start_ap; n: how many of the
\* four final commands are answered "OK"; rf: the reply to the first that is not.
EspAtInitialize(r1, r2, rc, rq, ry, sr, rs, rb, n, rf) ==
    /\ tasks["esp_at_initialize"] > 0
    /\ LET t0   == Take("esp_at_initialize")
           a1   == send_command(buf, r1)
           a2   == IF a1.ok THEN a1 ELSE send_command(a1.buf, r2)
           cl   == close_session(t0, a2.buf, mode, rc, rq)
           \* state when AT+SYSMSG=4 is sent
           run1 == a2.ok \/ cl.ok
           t1   == IF a2.ok THEN t0 ELSE cl.tasks
           b1   == IF a2.ok THEN a2.buf ELSE cl.buf
           y    == send_command(b1, ry)
           q    == IF sr THEN send_command(y.buf, rs) ELSE y
           ok1  == ~sr \/ q.ok
           br   == start_branch(q.buf, rb)
           ok2  == ok1 /\ mode \in { "STA", "AP" } /\ br.ok
           b2   == IF ok1 /\ mode \in { "STA", "AP" } THEN br.buf ELSE q.buf
           fin  == IF n = 4 THEN send_command(b2, "OK") ELSE send_command(b2, rf)
           ok3  == ok2 /\ n = 4
       IN  /\ session_stream' = IF a2.ok THEN session_stream ELSE "NULL"
           /\ rt_handler' = IF a2.ok THEN rt_handler ELSE "stream_buffer_all"
           /\ IF ~run1
              THEN /\ esp_at_running' = FALSE
                   /\ tasks' = t1
                   /\ buf' = b1
                   /\ timeout' = cl.timeout
                   /\ init_ok' = "failed"
              ELSE /\ esp_at_running' = IF ok2 THEN ok3
                                        ELSE IF ok1 /\ mode \notin { "STA", "AP" } THEN FALSE
                                        ELSE sr
                   /\ tasks' = IF ok3 THEN TaskAdd(t1, "await_connect") ELSE t1
                   /\ buf' = IF ok2 THEN fin.buf ELSE b2
                   /\ timeout' = y.timeout
                   /\ init_ok' = IF ok3 THEN "ok" ELSE "failed"
    /\ ev' = OpEv("esp_at_initialize", NO_DATA, [ tasks |-> tasks ])
    /\ UNCHANGED << rxbuf, enqueue_realtime_command, cmd, s, idx, mode,
                    fed, got, base, pending, nclose, free, drv >>

\* The delays of await_connect the wrong way round
await_connect_delay_swapped(c) == IF c = NO_DATA THEN POLL_DELAY ELSE IDLE_DELAY

\* c == SERIAL_NO_DATA ? 200 : 2, the delay await_connect re-arms itself with
await_connect_delay(c) == IF c = NO_DATA THEN IDLE_DELAY ELSE POLL_DELAY

\* await_connect: src/esp_at.c:437-490, having read c from the module stream;
\* m1, m2: replies to AT+CIPMODE=1 and AT+CIPSEND; sc: result of stream_connect
\* (drawn when the line read is the connect announcement)
AwaitConnectRun(c, spend) ==
    /\ tasks["await_connect"] > 0
    /\ free >= spend
    /\ free' = free - spend
    /\ LET t0    == Take("await_connect")
           bl    == IF c = ASCII_LF THEN BufPut(buf, idx, NUL) ELSE buf
           match == c = ASCII_LF /\ CStr(bl) = ConnectLine
           store == c # NO_DATA /\ c # ASCII_CR /\ c # ASCII_LF
           i0    == IF c = ASCII_LF THEN 0 ELSE idx
       IN  IF match
           THEN \E m1 \in Replies :
                \E m2 \in (IF m1 = "OK" THEN Replies ELSE { "OK" }) :
                \E sc \in (IF m1 = "OK" /\ m2 = "OK" THEN BOOLEAN ELSE { TRUE }) :
                   LET c1    == send_command(bl, m1)
                       c2    == IF c1.ok THEN send_command(c1.buf, m2) ELSE c1
                       armed == c1.ok /\ c2.ok /\ sc
                   IN  /\ buf' = c2.buf
                       /\ idx' = 0
                       /\ timeout' = IF armed THEN PROMPT_POLLS ELSE c2.timeout
                       /\ session_stream' = IF armed THEN "telnet_stream" ELSE session_stream
                       /\ tasks' = IF armed THEN TaskAdd(t0, "await_connected") ELSE t0
                       /\ ev' = OpEv("await_connect", c,
                                     [ match |-> TRUE, m1 |-> m1, m2 |-> m2, sc |-> sc,
                                       tasks |-> tasks, delay |-> << >> ])
           ELSE /\ buf' = IF store /\ i0 < BUF_SIZE - 1 THEN BufPut(bl, i0, c) ELSE bl
                /\ idx' = IF store THEN (IF i0 >= BUF_SIZE - 1 THEN 0 ELSE i0 + 1) ELSE i0
                /\ tasks' = TaskAdd(t0, "await_connect")
                /\ ev' = OpEv("await_connect", c,
                              [ match |-> FALSE, m1 |-> "OK", m2 |-> "OK", sc |-> TRUE,
                                tasks |-> tasks, delay |-> << await_connect_delay(c) >> ])
                /\ UNCHANGED << timeout, session_stream >>
    /\ UNCHANGED << rxbuf, enqueue_realtime_command, cmd, s, rt_handler,
                    esp_at_running, mode, got, base, pending, nclose, init_ok, drv >>

\* A run of await_connect in the state machine
AwaitConnect(c, spend) == AwaitConnectRun(c, spend) /\ UNCHANGED fed

\* await_connected scheduling a further poll after it has read the prompt
AwaitConnected_rearms(c, spend) ==
    /\ tasks["await_connected"] > 0
    /\ free >= spend
    /\ free' = free - spend
    /\ LET t0 == Take("await_connected")
           tm == timeout - 1     \* --timeout; a uint32 is kept as its residue nearest to 0
       IN  IF c = ">"
           THEN /\ rxbuf' = IF session_stream # "NULL" THEN atStreamRxCancel(rxbuf) ELSE rxbuf
                /\ rt_handler' = "esp_at_receive"
                /\ tasks' = TaskAdd(t0, "await_connected")
                /\ fed' = << >>
                /\ got' = << >>
                /\ base' = Unread(rxbuf')
                /\ pending' = IF session_stream # "NULL" THEN << ASCII_CAN >> ELSE pending
                /\ nclose' = 0
                /\ UNCHANGED << timeout, buf, session_stream >>
           ELSE IF timeout > PROMPT_POLLS /\ tm < INIT_DELAY + SEND_TIMEOUT - MaxStale THEN FALSE
           ELSE IF tm = 0
           THEN \E r1 \in Replies : \E r2 \in CloseReplies2 :
                   LET cl == close_session(t0, buf, mode, r1, r2)
                   IN  /\ session_stream' = "NULL"
                       /\ rt_handler' = "stream_buffer_all"
                       /\ tasks' = cl.tasks
                       /\ buf' = cl.buf
                       /\ timeout' = cl.timeout
                       /\ UNCHANGED << rxbuf, fed, got, base, pending, nclose >>
           ELSE /\ timeout' = tm
                /\ tasks' = TaskAdd(t0, "await_connected")
                /\ UNCHANGED << rxbuf, rt_handler, session_stream, buf, fed, got, base, pending, nclose >>
    /\ ev' = OpEv("await_connected", c, [ tasks |-> tasks, timeout |-> timeout ])
    /\ UNCHANGED << enqueue_realtime_command, cmd, s, esp_at_running, idx, mode,
                    init_ok, drv >>

\* await_connected testing the budget before decrementing it (timeout-- == 0)
AwaitConnected_post_decrement(c, spend) ==
    /\ tasks["await_connected"] > 0
    /\ free >= spend
    /\ free' = free - spend
    /\ LET t0 == Take("await_connected")
           tm == timeout - 1     \* --timeout; a uint32 is kept as its residue nearest to 0
       IN  IF c = ">"
           THEN /\ rxbuf' = IF session_stream # "NULL" THEN atStreamRxCancel(rxbuf) ELSE rxbuf
                /\ rt_handler' = "esp_at_receive"
                /\ tasks' = t0
                /\ fed' = << >>
                /\ got' = << >>
                /\ base' = Unread(rxbuf')
                /\ pending' = IF session_stream # "NULL" THEN << ASCII_CAN >> ELSE pending
                /\ nclose' = 0
                /\ UNCHANGED << timeout, buf, session_stream >>
           ELSE IF timeout > PROMPT_POLLS /\ tm < INIT_DELAY + SEND_TIMEOUT - MaxStale THEN FALSE
           ELSE IF timeout = 0
           THEN \E r1 \in Replies : \E r2 \in CloseReplies2 :
                   LET cl == close_session(t0, buf, mode, r1, r2)
                   IN  /\ session_stream' = "NULL"
                       /\ rt_handler' = "stream_buffer_all"
                       /\ tasks' = cl.tasks
                       /\ buf' = cl.buf
                       /\ timeout' = cl.timeout
                       /\ UNCHANGED << rxbuf, fed, got, base, pending, nclose >>
           ELSE /\ timeout' = tm
                /\ tasks' = TaskAdd(t0, "await_connected")
                /\ UNCHANGED << rxbuf, rt_handler, session_stream, buf, fed, got, base, pending, nclose >>
    /\ ev' = OpEv("await_connected", c, [ tasks |-> tasks, timeout |-> timeout ])
    /\ UNCHANGED << enqueue_realtime_command, cmd, s, esp_at_running, idx, mode,
                    init_ok, drv >>

\* await_connected: src/esp_at.c:421-435, having read c; r1, r2: replies
\* inside close_session (drawn when the retry budget runs out)
AwaitConnected(c, spend) ==
    /\ tasks["await_connected"] > 0
    /\ free >= spend
    /\ free' = free - spend
    /\ LET t0 == Take("await_connected")
           tm == timeout - 1     \* --timeout; a uint32 is kept as its residue nearest to 0
       IN  IF c = ">"
           THEN /\ rxbuf' = IF session_stream # "NULL" THEN atStreamRxCancel(rxbuf) ELSE rxbuf
                /\ rt_handler' = "esp_at_receive"
                /\ tasks' = t0
                /\ fed' = << >>
                /\ got' = << >>
                /\ base' = Unread(rxbuf')
                /\ pending' = IF session_stream # "NULL" THEN << ASCII_CAN >> ELSE pending
                /\ nclose' = 0
                /\ UNCHANGED << timeout, buf, session_stream >>
           ELSE IF timeout > PROMPT_POLLS /\ tm < INIT_DELAY + SEND_TIMEOUT - MaxStale THEN FALSE
           ELSE IF tm = 0
           THEN \E r1 \in Replies : \E r2 \in CloseReplies2 :
                   LET cl == close_session(t0, buf, mode, r1, r2)
                   IN  /\ session_stream' = "NULL"
                       /\ rt_handler' = "stream_buffer_all"
                       /\ tasks' = cl.tasks
                       /\ buf' = cl.buf
                       /\ timeout' = cl.timeout
                       /\ UNCHANGED << rxbuf, fed, got, base, pending, nclose >>
           ELSE /\ timeout' = tm
                /\ tasks' = TaskAdd(t0, "await_connected")
                /\ UNCHANGED << rxbuf, rt_handler, session_stream, buf, fed, got, base, pending, nclose >>
    /\ ev' = OpEv("await_connected", c, [ tasks |-> tasks, timeout |-> timeout ])
    /\ UNCHANGED << enqueue_realtime_command, cmd, s, esp_at_running, idx, mode,
                    init_ok, drv >>

\* close_session run by the scheduler: src/esp_at.c:339-369
CloseSession(r1, r2) ==
    /\ tasks["close_session"] > 0
    /\ LET cl == close_session(Take("close_session"), buf, mode, r1, r2)
       IN  /\ session_stream' = "NULL"
           /\ rt_handler' = "stream_buffer_all"
           /\ tasks' = cl.tasks
           /\ buf' = cl.buf
           /\ timeout' = cl.timeout
           /\ ev' = OpEv("close_session", NO_DATA,
                         [ r1 |-> r1, prev |-> ev.op, tasks |-> tasks,
                           prev_tasks |-> IF ev.op = "close_session" THEN ev.arg.tasks ELSE tasks,
                           rb |-> rxbuf,
                           steps |-> (IF session_stream # "NULL" THEN << "stream_disconnect" >>
                                      ELSE << >>) \o cl.steps ])
    /\ UNCHANGED << rxbuf, enqueue_realtime_command, cmd, s, esp_at_running, idx, mode,
                    fed, got, base, pending, nclose, init_ok, free, drv >>

\* The module sends whole lines in command mode.  ConnectNext: the bytes that
\* continue the line await_connect has collected so far, towards the connect
\* announcement '0,CONNECT' CR LF or to the end of a line that is something else
ConnectNext ==
    LET line == SubSeq(buf, 1, idx)
    IN  IF idx > Len(buf) \/ idx = 0 THEN { }
        ELSE IF idx < Len(ConnectLine) /\ line = SubSeq(ConnectLine, 1, idx)
        THEN { ConnectLine[idx + 1] }
        ELSE { ASCII_CR, ASCII_LF }

\* The first byte of a line: of a connect announcement or of something else
ProbeLine == IF idx = 0 THEN { "0", "x" } ELSE { }

\* State after esp_at_init: src/esp_at.c:1061-1101
Init ==
    /\ rxbuf = [ data |-> [ i \in 0..(RX_BUFFER_SIZE - 1) |-> NUL ],
                 head |-> 0, tail |-> 0, overflow |-> 0 ]
    /\ enqueue_realtime_command = "protocol_enqueue_realtime_command"
    /\ cmd = 0
    /\ s = NULL
    /\ rt_handler = "stream_buffer_all"
    /\ session_stream = "NULL"
    /\ timeout = 0
    /\ esp_at_running = FALSE
    /\ buf = << >>
    /\ idx = 0
    /\ tasks = [ NoTasks EXCEPT !["esp_at_startup"] = 1 ]
    /\ mode \in { "Off", "STA", "AP" }
    /\ fed = << >>
    /\ got = << >>
    /\ base = << >>
    /\ pending = << >>
    /\ nclose = 0
    /\ ev = OpEv("esp_at_init", NO_DATA, << >>)
    /\ init_ok = "pending"
    /\ free = MaxInput
    /\ drv = DrvIdle

Next ==
    \/ EspAtStartup
    \/ /\ tasks["esp_at_initialize"] > 0
       /\ \E r1 \in Replies :
          \E r2 \in (IF r1 = "OK" THEN { "OK" } ELSE Replies) :
          \E rc \in (IF r2 = "OK" THEN { "OK" } ELSE Replies) :
          \E rq \in (IF r2 # "OK" /\ rc = "OK" THEN CloseReplies2 ELSE { "OK" }) :
          \E ry \in { "OK", "TIMEOUT" } :
          \E sr \in BOOLEAN :
          \E rs \in (IF sr THEN { "OK", "ERROR" } ELSE { "OK" }) :
          \E rb \in { "OK", "ERROR" } :
          \E n \in 0..4 :
          \E rf \in (IF n = 4 THEN { "OK" } ELSE { "ERROR", "TIMEOUT" }) :
              EspAtInitialize(r1, r2, rc, rq, ry, sr, rs, rb, n, rf)
    \/ \E c \in { NO_DATA } \cup ConnectNext : AwaitConnect(c, 0)
    \/ \E c \in ProbeLine : AwaitConnect(c, 1)
    \/ \E c \in { NO_DATA, ">" } : AwaitConnected(c, 0)
    \/ \E c \in { "x" } : AwaitConnected(c, 1)
    \/ /\ tasks["close_session"] > 0
       /\ \E r1 \in Replies : \E r2 \in CloseReplies2 : CloseSession(r1, r2)
    \/ /\ rt_handler = "esp_at_receive"
       /\ LET K == Continues(fed)
          IN  \/ \E c \in K : Receive(c, 0)
              \/ \E c \in ProbeBridge \ K : Receive(c, 1)
    \/ GetC

Spec == Init /\ [][Next]_vars

----------------------------------------------------------------------------
(* Teardown and re-listen, from a bridged session on *)

\* The session of InitScan: await_connected has read the prompt and
\* installed the scanner
InitCycle ==
    /\ rxbuf = atStreamRxCancel([ data |-> [ i \in 0..(RX_BUFFER_SIZE - 1) |-> NUL ],
                                  head |-> 0, tail |-> 0, overflow |-> 0 ])
    /\ base = << ASCII_CAN >>
    /\ pending = << ASCII_CAN >>
    /\ enqueue_realtime_command = "protocol_enqueue_realtime_command"
    /\ cmd = 0
    /\ s = NULL
    /\ rt_handler = "esp_at_receive"
    /\ session_stream = "telnet_stream"
    /\ timeout = 10
    /\ esp_at_running = TRUE
    /\ buf = << "O", "K", NUL, "O", "N", "N", "E", "C", "T", NUL >>
    /\ idx = 0
    /\ tasks = NoTasks
    /\ mode \in { "STA", "AP" }
    /\ fed = << >>
    /\ got = << >>
    /\ nclose = 0
    /\ init_ok = "ok"
    /\ ev = OpEv("await_connected", ">",
                 [ tasks |-> [ NoTasks EXCEPT !["await_connected"] = 1 ], timeout |-> 10 ])
    /\ free = MaxInput
    /\ drv = DrvIdle

NextCycle ==
    \/ \E c \in { NO_DATA } \cup ConnectNext : AwaitConnect(c, 0)
    \/ \E c \in ProbeLine : AwaitConnect(c, 1)
    \/ \E c \in { NO_DATA, ">" } : AwaitConnected(c, 0)
    \/ \E c \in { "x" } : AwaitConnected(c, 1)
    \/ /\ tasks["close_session"] > 0
       /\ \E r1 \in Replies : \E r2 \in CloseReplies2 : CloseSession(r1, r2)
    \/ /\ rt_handler = "esp_at_receive"
       /\ LET K == Continues(fed)
          IN  \/ \E c \in K : Receive(c, 0)
              \/ \E c \in ProbeBridge \ K : Receive(c, 1)
    \/ GetC

SpecCycle == InitCycle /\ [][NextCycle]_vars

----------------------------------------------------------------------------
(* Command/response driver, byte by byte: src/esp_at.c:246-337, 492-585 *)

OK == << "O", "K" >>
ERROR == << "E", "R", "R", "O", "R" >>
WIFI_CONNECTED == << "W", "I", "F", "I", " ", "C", "O", "N", "N", "E", "C", "T", "E", "D" >>
WIFI_GOT_IP == << "W", "I", "F", "I", " ", "G", "O", "T", " ", "I", "P" >>

\* The lines the module answers the modelled commands with
KnownLines == { OK, ERROR, WIFI_CONNECTED, WIFI_GOT_IP }

\* is_done: whether line l ends a reply, and the status it stores
is_done(l) ==
    [ done   |-> l = OK \/ (Len(l) >= Len(ERROR) /\ SubSeq(l, 1, Len(ERROR)) = ERROR),
      status |-> l = OK ]

\* !strcmp(s, "WIFI GOT IP") with the result inverted
GotIP_inverted(l) == l # WIFI_GOT_IP

\* !strcmp(s, "WIFI GOT IP") in the join loop of start_sta
GotIP(l) == l = WIFI_GOT_IP

\* The characters buf[0] .. buf[w - 1], the line being accumulated
Line(b, w) == [ k \in 1..w |-> BufAt(b, k - 1) ]

IsProperPrefix(p, l) == Len(p) < Len(l) /\ SubSeq(l, 1, Len(p)) = p

\* The bytes the module may send next.  A line, blank or not, is begun only
\* while the budget lasts; a begun known line is continued and ended by CR LF
\* or LF; any begun line can end with LF; a line of 'x' is begun like any
\* other and made longer, as far as MaxOver bytes past the end of buf, only
\* when it is the first line of the run, and then it uses the budget up.
DrvBytes ==
    LET p == Line(buf, drv.w)
    IN  IF drv.w = 0
        THEN    (IF free >= 2 THEN { l[1] : l \in KnownLines } \cup { "x" } ELSE { })
           \cup (IF free >= 1 THEN { ASCII_LF } ELSE { })
        ELSE    { l[Len(p) + 1] : l \in { k \in KnownLines : IsProperPrefix(p, k) } }
           \cup (IF p \in KnownLines /\ drv.c # ASCII_CR THEN { ASCII_CR } ELSE { })
           \cup { ASCII_LF }
           \cup (IF /\ p = [ k \in 1..drv.w |-> "x" ]
                    /\ drv.w < BUF_SIZE + MaxOver
                    /\ IF drv.w = 1 THEN free = MaxDrv - 4 ELSE free = 0
                 THEN { "x" } ELSE { })

\* The driver after a call of send_command has returned
SendCommandReturns(d, ret, why) ==
    [ d EXCEPT !.fn = "idle", !.done = "send_command", !.why = why,
               !.ret = IF ret THEN "true" ELSE "false" ]

\* The driver entering get_reply from a caller's loop; buf gets *buf = '\0'
GetReplyEnters(d) == [ d EXCEPT !.fn = "get_reply", !.w = 0, !.wr = 0, !.c = NO_DATA ]

\* The driver after a call of get_reply has returned buf (b[0] is not NUL) or
\* NULL to its caller, which runs its loop up to the next call of get_reply
\* or to its end: the join step and the address queries of start_sta
\* (src/esp_at.c:526-577)
GetReplyReturns(d, b, why) ==
    LET null == BufAt(b, 0) = NUL
        l    == CStr(b)
        d1   == [ d EXCEPT !.done = "get_reply", !.why = why,
                           !.ret = IF null THEN "NULL" ELSE "buf",
                           !.lines = Append(@, [ s |-> IF null THEN << NUL >> ELSE l,
                                                 why |-> why ]) ]
        end(ok) ==
            IF d.caller = "join"
            THEN IF ok THEN GetReplyEnters([ d1 EXCEPT !.caller = "cipsta", !.ok = FALSE,
                                                        !.joined = "true" ])
                 ELSE [ d1 EXCEPT !.fn = "idle", !.caller = "none", !.ok = FALSE,
                                  !.joined = "false", !.result = "false" ]
            ELSE IF d.caller = "cipsta" /\ ok
            THEN GetReplyEnters([ d1 EXCEPT !.caller = "cipstamac", !.ok = FALSE ])
            ELSE [ d1 EXCEPT !.fn = "idle", !.caller = "none", !.ok = ok,
                             !.result = IF ok THEN "true" ELSE "false" ]
    IN  IF null THEN end(d.ok)
        ELSE IF d.caller = "join"
        THEN IF GotIP(l) THEN GetReplyEnters([ d1 EXCEPT !.ok = TRUE ])
             ELSE IF is_done(l).done THEN end(d.ok)
             ELSE GetReplyEnters(d1)
        ELSE IF is_done(l).done THEN end(is_done(l).status)
             ELSE GetReplyEnters(d1)

\* buf after the step that took the driver from d to d1: get_reply entered
\* anew clears buf[0]
BufAfter(d1, b) == IF d1.fn = "get_reply" THEN BufPut(b, 0, NUL) ELSE b

\* esp_at_initialize calls send_command
SendCommandStart ==
    /\ drv.fn = "idle"
    /\ free >= 2
    /\ free' = free - 2
    /\ buf' = BufPut(buf, 0, NUL)
    /\ timeout' = INIT_DELAY + SEND_TIMEOUT
    /\ drv' = [ DrvIdle EXCEPT !.fn = "send_command", !.wr = 0 ]
    /\ ev' = OpEv("send_command", NO_DATA, << >>)
    /\ UNCHANGED << rxbuf, enqueue_realtime_command, cmd, s, rt_handler, session_stream,
                    esp_at_running, idx, tasks, mode,
                    fed, got, base, pending, nclose, init_ok >>

\* start_sta reaches the join step, the commands before it having succeeded,
\* and calls get_reply("AT+CWJAP=...")
JoinStart ==
    /\ drv.fn = "idle"
    /\ mode = "STA"
    /\ free >= 2
    /\ free' = free - 2
    /\ buf' = BufPut(buf, 0, NUL)
    /\ drv' = GetReplyEnters([ DrvIdle EXCEPT !.caller = "join" ])
    /\ ev' = OpEv("start_sta", NO_DATA, << >>)
    /\ UNCHANGED << rxbuf, enqueue_realtime_command, cmd, s, rt_handler, session_stream,
                    timeout, esp_at_running, idx, tasks, mode,
                    fed, got, base, pending, nclose, init_ok >>

\* One turn of the read loop of send_command or get_reply in which
\* at_cmd_stream.read() returns byte c
DrvRead(c) ==
    /\ drv.fn \in { "send_command", "get_reply" }
    /\ free' = IF drv.w = 0 THEN (IF c = ASCII_LF THEN free - 1 ELSE free - 2)
               ELSE IF drv.w = 1 /\ c = "x" THEN 0
               ELSE free
    /\ ev' = OpEv(drv.fn, c, [ w |-> drv.w ])
    /\ LET d == [ drv EXCEPT !.c = c ]
       IN  IF drv.fn = "send_command" /\ drv.w >= BUF_SIZE - 1
           THEN /\ drv' = SendCommandReturns(d, FALSE, "full")
                /\ buf' = buf
           ELSE IF drv.fn = "get_reply" /\ drv.w >= BUF_SIZE /\ c # ASCII_CR
           THEN \* *s = ... behind the end of buf: what the call then returns is
                \* not determined
                /\ \E r \in { "buf", "NULL" } :
                       drv' = [ d EXCEPT !.fn = "idle", !.caller = "none", !.wr = drv.w,
                                         !.done = "get_reply", !.why = "overrun", !.ret = r ]
                /\ buf' = buf
           ELSE IF c = ASCII_LF
           THEN LET b1 == BufPut(buf, drv.w, NUL)
                    d1 == [ d EXCEPT !.wr = drv.w ]
                IN  IF drv.w > 0
                    THEN IF drv.fn = "send_command"
                         THEN /\ drv' = SendCommandReturns(d1, CStr(b1) = OK, "line")
                              /\ buf' = b1
                         ELSE /\ drv' = GetReplyReturns(d1, b1, "line")
                              /\ buf' = BufAfter(drv', b1)
                    ELSE /\ drv' = [ d1 EXCEPT !.w = 0 ]
                         /\ buf' = b1
           ELSE IF c # ASCII_CR
           THEN /\ drv' = [ d EXCEPT !.w = @ + 1, !.wr = drv.w ]
                /\ buf' = BufPut(buf, drv.w, c)
           ELSE /\ drv' = d
                /\ buf' = buf
    /\ UNCHANGED << rxbuf, enqueue_realtime_command, cmd, s, rt_handler, session_stream,
                    timeout, esp_at_running, idx, tasks, mode,
                    fed, got, base, pending, nclose, init_ok >>

\* The tick count passes the timeout of the call in progress: the read loop
\* ends with what has been accumulated.  A line the module leaves unfinished
\* lacks only its terminator, and is taken from the budget once more.
DrvTimeout ==
    /\ drv.fn \in { "send_command", "get_reply" }
    /\ drv.w > 0 => free >= 1 /\ Line(buf, drv.w) \in KnownLines \cup { << "x" >> }
    /\ free' = IF drv.w > 0 THEN free - 1 ELSE free
    /\ ev' = OpEv(drv.fn, NO_DATA, [ w |-> drv.w ])
    /\ IF drv.fn = "send_command"
       THEN /\ drv' = SendCommandReturns(drv, CStr(buf) = OK, "timeout")
            /\ buf' = buf
       ELSE /\ drv' = GetReplyReturns(drv, buf, "timeout")
            /\ buf' = BufAfter(drv', buf)
    /\ UNCHANGED << rxbuf, enqueue_realtime_command, cmd, s, rt_handler, session_stream,
                    timeout, esp_at_running, idx, tasks, mode,
                    fed, got, base, pending, nclose, init_ok >>

\* esp_at_initialize is running, three seconds after the module was reset
InitCmd ==
    /\ rxbuf = [ data |-> [ i \in 0..(RX_BUFFER_SIZE - 1) |-> NUL ],
                 head |-> 0, tail |-> 0, overflow |-> 0 ]
    /\ enqueue_realtime_command = "protocol_enqueue_realtime_command"
    /\ cmd = 0
    /\ s = NULL
    /\ rt_handler = "stream_buffer_all"
    /\ session_stream = "NULL"
    /\ timeout = 0
    /\ esp_at_running = FALSE
    /\ buf = << >>
    /\ idx = 0
    /\ tasks = NoTasks
    /\ mode \in { "STA", "AP" }
    /\ fed = << >>
    /\ got = << >>
    /\ base = << >>
    /\ pending = << >>
    /\ nclose = 0
    /\ ev = OpEv("esp_at_startup", NO_DATA, << >>)
    /\ init_ok = "pending"
    /\ free = MaxDrv
    /\ drv = DrvIdle

NextCmd ==
    \/ SendCommandStart
    \/ JoinStart
    \/ /\ drv.fn \in { "send_command", "get_reply" }
       /\ \E c \in DrvBytes : DrvRead(c)
    \/ DrvTimeout

SpecCmd == InitCmd /\ [][NextCmd]_vars

----------------------------------------------------------------------------
(* Vocabulary of the claims about the scanner *)

\* What successive atStreamGetC calls return from rb until it reports no data
RECURSIVE Drain(_)
Drain(rb) ==
    LET r == atStreamGetC(rb)
    IN  IF r.c = NO_DATA THEN << >> ELSE << r.c >> \o Drain(r.rb)

\* Everything delivered or deliverable through the read path since the install
Delivered == got \o Drain(rxbuf)

\* The bytes of the candidate the scanner is holding back
Held == IF cmd # 0 THEN SubSeq(cmds[cmd], 1, s + 1) ELSE << >>

\* No push was rejected and no input byte was claimed by the realtime predicate
NothingDropped ==
    /\ rxbuf.overflow = 0
    /\ \A i \in 1..Len(fed) : ~RtClaims(enqueue_realtime_command, fed[i])

Front(q) == SubSeq(q, 1, Len(q) - 1)

\* The last call of esp_at_receive found a candidate active, not yet matched
\* up to its end, and its byte differs from the byte the candidate expects
LastWasMismatch ==
    /\ ev.op = "receive"
    /\ ev.cmd0 # 0
    /\ ev.s0 + 1 < Len(cmds[ev.cmd0])
    /\ ev.c # cmds[ev.cmd0][ev.s0 + 2]

\* The last call of esp_at_receive got the line feed that completes the
\* active candidate (for the prefix pattern: the line feed after the prefix)
LastCompleted ==
    /\ ev.op = "receive"
    /\ ev.c = ASCII_LF
    /\ \/ ev.cmd0 \in { 1, 3 } /\ ev.s0 = Len(cmds[ev.cmd0]) - 2
       \/ ev.cmd0 = 2 /\ ev.s0 >= Len(cmds[2]) - 1

----------------------------------------------------------------------------
(* Claims C1 - C6: the scanner *)

\* C1 as stated: for an input without a full pattern, with nothing dropped,
\* the bytes read back are the whole input, in order.
C1_DeliveredEqualsInput ==
    (NothingDropped /\ ~ContainsPattern(fed)) => Delivered = base \o fed

\* C1 amended: for an input without a full pattern, with nothing dropped, the
\* bytes read back, followed by the bytes of the candidate the scanner still
\* holds back at the end of the input, are the input, in order, byte for byte.
C1_NoLossNoReorder ==
    (NothingDropped /\ ~ContainsPattern(fed)) => Delivered \o Held = base \o fed

C1_Witness ==
    /\ NothingDropped /\ ~ContainsPattern(fed)
    /\ LastWasMismatch /\ Len(ev.ins) >= 8
    /\ Delivered = base \o fed

\* C2: when the input is a payload without a full pattern followed by one
\* full 'CLOSED' CR LF or 'WIFI DISCONNECT' CR LF (nothing dropped), then
\* close_session has been scheduled exactly once and exactly the payload is
\* delivered.
C2_Detection ==
    \A n \in { 1, 3 } :
        (NothingDropped /\ EndsWith(fed, n) /\ ~ContainsPattern(Front(fed)))
            => /\ nclose = 1
               /\ Delivered = base \o SubSeq(fed, 1, Len(fed) - Len(cmds[n]))

\* C3: after 'C' and a second byte that is not 'L' (and that the realtime
\* predicate does not claim), fed to the scanner with no candidate active,
\* both bytes are in the ring in order and no close_session is scheduled.
C3_FalsePositiveReplay ==
    (Len(fed) = 2 /\ fed[1] = "C" /\ fed[2] # "L"
        /\ ~RtClaims(enqueue_realtime_command, fed[2]))
        => /\ Drain(rxbuf) = base \o fed
           /\ nclose = 0
           /\ tasks["close_session"] = 0

\* C4: on a mismatch against the active candidate, the bytes handed to
\* atStream_rx_insert are exactly the bytes consumed for the candidate, in
\* order, each once, followed by the mismatching byte; with nothing dropped
\* they are the last unread bytes of the ring.
C4_ReplayOnMismatch ==
    LastWasMismatch
        => /\ ev.ins = SubSeq(cmds[ev.cmd0], 1, ev.s0 + 1) \o << ev.c >>
           /\ NothingDropped =>
                 /\ Len(Drain(rxbuf)) >= Len(ev.ins)
                 /\ Suffix(Drain(rxbuf), Len(ev.ins)) = ev.ins

C4_Witness ==
    LastWasMismatch /\ NothingDropped /\ ev.cmd0 = 3 /\ ev.s0 = 15

\* C5: after a mismatch, a mismatching byte that is the first byte of a
\* pattern opens a new candidate.
C5_Reclassify ==
    (LastWasMismatch /\ ev.c \in { "C", "+", "W" })
        => /\ cmd = (IF ev.c = "C" THEN 1 ELSE IF ev.c = "+" THEN 2 ELSE 3)
           /\ s = 0

\* C6: when a byte completes the active candidate up to its line feed, the
\* call pushes nothing, close_session is queued (not run: the handler and the
\* session stay as they were), the scanner is back to 'no candidate', and,
\* for an input with nothing dropped and no earlier pattern, none of the
\* bytes of 'CLOSED' CR LF or 'WIFI DISCONNECT' CR LF is delivered.
C6_FinalizeOnMatch ==
    LastCompleted
        => /\ ev.ins = << >>
           /\ ev.close
           /\ tasks["close_session"] >= 1
           /\ rt_handler = "esp_at_receive"
           /\ session_stream # "NULL"
           /\ cmd = 0
           /\ s = NULL
           /\ (ev.cmd0 # 2 /\ NothingDropped /\ ~ContainsPattern(Front(fed)))
                 => Delivered = base \o SubSeq(fed, 1, Len(fed) - Len(cmds[ev.cmd0]))

C6_Witness ==
    LastCompleted /\ ev.cmd0 = 3 /\ NothingDropped /\ Len(fed) > Len(cmds[3])

----------------------------------------------------------------------------
(* Claims C7 - C10: the connection state machine *)

\* C7: whenever the bytes handed to the installed scanner end with a full
\* 'CLOSED' CR LF or 'WIFI DISCONNECT' CR LF, whatever came before, the call
\* that took the last byte has scheduled close_session, which is pending, and
\* the notification has not been passed on as payload.
C7_DisconnectRouted ==
    \A n \in { 1, 3 } :
        (ev.op = "receive" /\ EndsWith(fed, n))
            => /\ ev.close
               /\ tasks["close_session"] >= 1
               /\ ~EndsWith(Drain(rxbuf), n)

\* C8: when close_session has run twice in succession, the second run leaves
\* what the first left: the same session and handler state and the same
\* pending steps, with exactly one await_connect pending.
C8_IdempotentClose ==
    (ev.op = "close_session" /\ ev.arg.prev = "close_session")
        => /\ session_stream = "NULL"
           /\ rt_handler = "stream_buffer_all"
           /\ tasks["await_connect"] = ev.arg.tasks["await_connect"]
           /\ tasks["await_connect"] = 1

\* C9: once esp_at_initialize has succeeded, the machine is never in a state
\* it cannot leave: a step (await_connect, await_connected or close_session)
\* is pending, or the scanner is installed and can schedule one.
C9_NoTerminalState ==
    init_ok = "ok"
        => \/ tasks["await_connect"] > 0
           \/ tasks["await_connected"] > 0
           \/ tasks["close_session"] > 0
           \/ rt_handler = "esp_at_receive"

\* What a run of step fn, scheduling nothing, leaves of the pending steps ts
Ran(ts, fn) == [ ts EXCEPT ![fn] = @ - 1 ]

\* C10 as stated: when await_connect has read the line '0,CONNECT' and
\* AT+CIPMODE=1 and AT+CIPSEND were answered 'OK', await_connected is armed.
C10_ArmedOnCommands ==
    (ev.op = "await_connect" /\ ev.arg.match /\ ev.arg.m1 = "OK" /\ ev.arg.m2 = "OK")
        => tasks["await_connected"] >= 1

\* C10 amended: when await_connect has read the line '0,CONNECT', AT+CIPMODE=1
\* and AT+CIPSEND were answered 'OK' and stream_connect succeeded, the consumer
\* is attached and await_connected is armed in place of await_connect, with a
\* budget of 10 polls; and when await_connected has read '>', esp_at_receive is
\* the installed byte handler and that run has scheduled no further step.
C10_PromptAck ==
    /\ (ev.op = "await_connect" /\ ev.arg.match /\ ev.arg.m1 = "OK" /\ ev.arg.m2 = "OK"
            /\ ev.arg.sc)
          => /\ tasks = TaskAdd(Ran(ev.arg.tasks, "await_connect"), "await_connected")
             /\ tasks["await_connected"] >= 1
             /\ timeout = PROMPT_POLLS
             /\ session_stream = "telnet_stream"
    /\ (ev.op = "await_connected" /\ ev.c = ">")
          => /\ rt_handler = "esp_at_receive"
             /\ tasks = Ran(ev.arg.tasks, "await_connected")

\* The prompt is read on a later poll of the budget of a session whose
\* await_connect armed it, and no other step is pending
C10_Witness ==
    /\ ev.op = "await_connected" /\ ev.c = ">"
    /\ ev.arg.timeout < PROMPT_POLLS /\ ev.arg.timeout > 0
    /\ rt_handler = "esp_at_receive"
    /\ session_stream = "telnet_stream"
    /\ tasks = NoTasks

----------------------------------------------------------------------------
(* Claims C11 - C12: failure paths of the state machine *)

\* C11: when a poll of await_connected reads no prompt and takes the budget
\* from 1 to 0, close_session is run within that poll (the consumer is
\* detached, the handler is stream_buffer_all, send_command has set timeout
\* anew, await_connect is re-armed at most once) and no further poll is
\* scheduled; and the scanner is never installed by anything but a poll of
\* await_connected that reads '>', so not by the polls of that attempt.
C11_TimeoutCloses ==
    /\ [](  (ev.op = "await_connected" /\ ev.c # ">" /\ ev.arg.timeout = 1)
              => /\ session_stream = "NULL"
                 /\ rt_handler = "stream_buffer_all"
                 /\ timeout = INIT_DELAY + SEND_TIMEOUT
                 /\ tasks \in { Ran(ev.arg.tasks, "await_connected"),
                                TaskAdd(Ran(ev.arg.tasks, "await_connected"), "await_connect") } )
    /\ [][ (rt_handler' = "esp_at_receive" /\ rt_handler # "esp_at_receive")
              => (ev'.op = "await_connected" /\ ev'.c = ">") ]_vars

\* The tenth poll without a prompt has run close_session, whose AT+CIPMODE=0
\* was answered, so that listening is re-armed
C11_Witness ==
    /\ ev.op = "await_connected" /\ ev.c = NO_DATA /\ ev.arg.timeout = 1
    /\ session_stream = "NULL"
    /\ tasks = [ NoTasks EXCEPT !["await_connect"] = 1 ]

\* C12: when esp_at_initialize has failed (a command of the sequence, the
\* station or access-point branch, or WiFi mode Off), the machine has halted:
\* from then on no await_connect is pending, no session is being set up and
\* the scanner is not installed.
C12_InitFailureHalts ==
    init_ok = "failed"
        => /\ tasks["await_connect"] = 0
           /\ tasks["await_connected"] = 0
           /\ rt_handler # "esp_at_receive"

----------------------------------------------------------------------------
(* Claims C13 - C15: the ring buffer *)

\* The state the last operation started from held RX_BUFFER_SIZE - 1 unread bytes
WasFull == BUFNEXT(ev.arg.rb.head) = ev.arg.rb.tail

\* C13: a byte pushed when the next head equals tail sets rxbuf.overflow and
\* changes nothing else of the ring: head, tail and data are as before, and
\* the bytes read back are those enqueued before, in their order.
C13_OverflowFlag ==
    (ev.op = "receive" /\ Len(ev.ins) = 1 /\ WasFull
        /\ ~RtClaims(enqueue_realtime_command, ev.ins[1]))
        => /\ rxbuf = [ ev.arg.rb EXCEPT !.overflow = 1 ]
           /\ Drain(rxbuf) = Drain(ev.arg.rb)
           /\ Len(Drain(rxbuf)) = RX_BUFFER_SIZE - 1

\* 'x' was pushed into the ring that held the CAN, the replayed RingFill
\* and enough further payload to be full, and was rejected
C13_Witness ==
    /\ ev.op = "receive" /\ ev.c = "x" /\ ev.ins = << "x" >> /\ WasFull
    /\ rxbuf.overflow = 1
    /\ Len(Drain(rxbuf)) = RX_BUFFER_SIZE - 1
    /\ SubSeq(Drain(rxbuf), 1, 1 + Len(RingFill)) = << ASCII_CAN >> \o RingFill

\* C14: head and tail are indices of the ring, head = tail exactly when no
\* byte is unread, at most RX_BUFFER_SIZE - 1 bytes are unread, and the
\* unread bytes are the ones a queue with that capacity would hold after the
\* same pushes, pops, flushes and cancels.
C14_RingInvariant ==
    /\ rxbuf.head \in 0..(RX_BUFFER_SIZE - 1)
    /\ rxbuf.tail \in 0..(RX_BUFFER_SIZE - 1)
    /\ (rxbuf.head = rxbuf.tail) <=> (pending = << >>)
    /\ Len(pending) <= RX_BUFFER_SIZE - 1
    /\ Drain(rxbuf) = pending

\* A cancel of the full ring after a rejected push: the indices have wrapped
\* and the CAN is the one unread byte
C14_Witness ==
    /\ ev.op = "cancel" /\ WasFull
    /\ rxbuf.overflow = 1
    /\ rxbuf.head < rxbuf.tail
    /\ pending = << ASCII_CAN >>

\* C15: head is written by the push only: no read, reset_read_buffer or
\* cancel_read_buffer of the consumer changes head, and no push changes tail.
C15_ConsumerNeverWritesHead ==
    [][ /\ ev'.op \in { "getc", "flush", "cancel" } => rxbuf'.head = rxbuf.head
        /\ ev'.op = "receive" => rxbuf'.tail = rxbuf.tail ]_vars

----------------------------------------------------------------------------
(* Claims C16 - C20: the command/response driver *)

\* The last call of the driver to return was fn, and it returned because of why
Returned(fn, why) == drv.done = fn /\ drv.why \in why

\* C16: when send_command returns on a line it has read, and not on the
\* timeout or a full buffer, that line is 'OK' or begins with 'ERROR' (any
\* other line having been read over), and the result is true exactly for 'OK'.
C16_ReadsToTerminalLine ==
    Returned("send_command", { "line" })
        => /\ is_done(CStr(buf)).done
           /\ drv.ret = "true" <=> CStr(buf) = OK

\* C17: when send_command returns because the timeout expired before a line
\* feed ended a line, or because the line filled buf, the result is false.
C17_FalseOnTimeoutOrOverlong ==
    Returned("send_command", { "timeout", "full" }) => drv.ret = "false"

\* C18: when get_reply returns because its timeout expired, it returns NULL,
\* whatever it had accumulated; it returns buf only for a line that a line
\* feed ended.
C18_NullOnTimeout ==
    /\ Returned("get_reply", { "timeout" }) => drv.ret = "NULL"
    /\ (drv.done = "get_reply" /\ drv.ret = "buf") => drv.why = "line"

\* C19: every index at which send_command, get_reply and await_connect write
\* into buf is one of 0 .. BUF_SIZE - 1.
C19_WriteIndexInBuf ==
    /\ drv.wr \in -1..(BUF_SIZE - 1)
    /\ idx \in 0..(BUF_SIZE - 1)

\* The reply to AT+CWJAP of a module that joins its access point
JoinLines ==
    << [ s |-> WIFI_CONNECTED, why |-> "line" ],
       [ s |-> WIFI_GOT_IP, why |-> "line" ],
       [ s |-> OK, why |-> "line" ] >>

\* C20: when the first three lines get_reply returns to start_sta after
\* AT+CWJAP are 'WIFI CONNECTED', 'WIFI GOT IP' and 'OK', each ended by a
\* line feed before the timeout, the join step ends with ok = true, and with
\* the third line start_sta has sent AT+CIPSTA? and is in get_reply for the
\* first line of the answer.
C20_JoinSucceeds ==
    (Len(drv.lines) >= 3 /\ SubSeq(drv.lines, 1, 3) = JoinLines)
        => /\ drv.joined = "true"
           /\ Len(drv.lines) = 3
                => /\ drv.caller = "cipsta" /\ drv.fn = "get_reply"
                   /\ drv.w = 0 /\ BufAt(buf, 0) = NUL /\ ~drv.ok

\* The three lines have been read, the last one ended by CR LF, and
\* start_sta waits for the answer to AT+CIPSTA?
C20_Witness ==
    /\ drv.lines = JoinLines
    /\ drv.caller = "cipsta"
    /\ drv.joined = "true"
    /\ ev.op = "get_reply" /\ ev.c = ASCII_LF /\ drv.c = NO_DATA

----------------------------------------------------------------------------
(* Claims C21 - C30: teardown, re-listen and the adapter *)

\* The place of call x in the sequence q of calls, 0 when it was not made
Pos(q, x) == IF \E i \in 1..Len(q) : q[i] = x
             THEN CHOOSE i \in 1..Len(q) : q[i] = x
             ELSE 0

\* C21: every run of close_session makes its calls in this order: the
\* consumer is detached before anything else, then '+++' is written, then
\* the settle delay passes, then AT+CIPMODE=0 is sent, then AT+CWQIF exactly
\* in access-point mode, then the read buffer is flushed, and last
\* await_connect is scheduled; '+++' precedes every AT command.
C21_ClosingOrder ==
    ev.op = "close_session"
        => LET q == ev.arg.steps
           IN  /\ Pos(q, "stream_disconnect") <= 1
               /\ 0 < Pos(q, "write +++")
               /\ Pos(q, "write +++") < Pos(q, "delay_ms 1000")
               /\ Pos(q, "delay_ms 1000") < Pos(q, "AT+CIPMODE=0")
               /\ (Pos(q, "AT+CWQIF") > 0) <=> (mode = "AP")
               /\ Pos(q, "AT+CWQIF") > 0 => Pos(q, "AT+CIPMODE=0") < Pos(q, "AT+CWQIF")
               /\ Pos(q, "AT+CIPMODE=0") < Pos(q, "at_cmd_stream.reset_read_buffer")
               /\ Pos(q, "AT+CWQIF") < Pos(q, "at_cmd_stream.reset_read_buffer")
               /\ Pos(q, "at_cmd_stream.reset_read_buffer") < Pos(q, "task_add await_connect")
               /\ Pos(q, "task_add await_connect") = Len(q)

\* C22: when close_session has run, rxbuf holds no unread byte: tail equals
\* head and a read through the adapter returns no data.
C22_ClosingFlushesRing ==
    ev.op = "close_session"
        => /\ rxbuf.tail = rxbuf.head
           /\ Drain(rxbuf) = << >>

\* C23: whenever the scanner is installed as the byte handler, it holds no
\* candidate: cmd = 0 and s = NULL.
C23_NoStaleCandidate ==
    [][ (rt_handler' = "esp_at_receive" /\ rt_handler # "esp_at_receive")
            => (cmd' = 0 /\ s' = NULL) ]_vars

\* C24: at most one step of the state machine, await_connect or
\* await_connected, is pending in the scheduler.
C24_OneStepPending ==
    tasks["await_connect"] + tasks["await_connected"] <= 1

\* C25: a consumer is attached (session_stream is not NULL) only while the
\* scanner is the installed byte handler.
C25_AttachedOnlyBridging ==
    session_stream # "NULL" => rt_handler = "esp_at_receive"

\* C26: a step that calls send_command or get_reply without uninstalling the
\* scanner first (esp_at_initialize, or await_connect on reading the connect
\* announcement) is never run while the scanner is the installed byte handler.
C26_DriverNotWhileBridging ==
    [][ ((ev'.op = "await_connect" /\ ev'.arg.match) \/ ev'.op = "esp_at_initialize")
            => rt_handler # "esp_at_receive" ]_vars

\* The bytes of q that predicate h does not claim
Unclaimed(q, h) == SelectSeq(q, LAMBDA c : ~RtClaims(h, c))

\* The first n elements of q, all of q when it has fewer
FirstN(q, n) == SubSeq(q, 1, IF Len(q) < n THEN Len(q) ELSE n)

\* C27: of the bytes pushed, those the installed predicate claims are not
\* stored, and the others are stored in their order behind those already
\* unread, as far as the ring has room; set_enqueue_rt_handler returns the
\* predicate that was installed and installs its argument unless that is
\* null; no other operation changes the predicate, which is never null.
C27_RealtimeInterception ==
    /\ [](ev.op = "receive"
            => Drain(rxbuf) = FirstN(Drain(ev.arg.rb) \o Unclaimed(ev.ins, enqueue_realtime_command),
                                     RX_BUFFER_SIZE - 1))
    /\ [](enqueue_realtime_command # "NULL")
    /\ [][ IF ev'.op = "set_rt_handler"
           THEN /\ ev'.arg.prev = enqueue_realtime_command
                /\ enqueue_realtime_command' = IF ev'.arg.handler # "NULL" THEN ev'.arg.handler
                                               ELSE enqueue_realtime_command
           ELSE enqueue_realtime_command' = enqueue_realtime_command ]_vars

\* The consumer has installed stream_buffer_all, and a '?', which the
\* predicate installed before claimed, was pushed and stored
C27_Witness ==
    /\ enqueue_realtime_command = "stream_buffer_all"
    /\ ev.op = "receive" /\ ev.c = "?" /\ ev.ins = << "?" >>
    /\ rxbuf.overflow = 0
    /\ Drain(rxbuf) = Drain(ev.arg.rb) \o << "?" >>

\* C28: when atStreamRxCancel has run, the next read returns CAN and the
\* read after it returns no data, whatever was unread before.
C28_CancelLeavesCan ==
    ev.op = "cancel"
        => LET r1 == atStreamGetC(rxbuf)
               r2 == atStreamGetC(r1.rb)
           IN  r1.c = ASCII_CAN /\ r2.c = NO_DATA

\* The cancel discarded the CAN of the session's start and the whole of
\* RingFill
C28_Witness ==
    /\ ev.op = "cancel"
    /\ Drain(ev.arg.rb) = << ASCII_CAN >> \o RingFill
    /\ Drain(rxbuf) = << ASCII_CAN >>

\* C29: a run of await_connect that has not read the line '0,CONNECT'
\* schedules await_connect once, so that as many are pending as before it
\* ran, with a delay of 200 ms when it read no byte and of 2 ms when it read one.
C29_ListeningRearms ==
    (ev.op = "await_connect" /\ ~ev.arg.match)
        => /\ tasks = TaskAdd(Ran(ev.arg.tasks, "await_connect"), "await_connect")
           /\ tasks["await_connect"] = ev.arg.tasks["await_connect"]
           /\ ev.arg.delay = IF ev.c = NO_DATA THEN << 200 >> ELSE << 2 >>

\* A poll read the line feed of a line that is not the announcement and
\* re-armed itself with the short delay; the poll before it had read nothing
C29_Witness ==
    /\ ev.op = "await_connect" /\ ~ev.arg.match
    /\ ev.c = ASCII_LF
    /\ ev.arg.delay = << POLL_DELAY >>
    /\ tasks["await_connect"] = 1 /\ tasks["await_connected"] = 0
    /\ idx = 0 /\ BufAt(buf, 0) = "x"

\* The number of complete occurrences of the patterns in q
Occurrences(q) ==
    Cardinality({ ni \in (1..3) \X (1..Len(q)) :
                    /\ ni[2] + Len(cmds[ni[1]]) - 1 <= Len(q)
                    /\ SubSeq(q, ni[2], ni[2] + Len(cmds[ni[1]]) - 1) = cmds[ni[1]] })

\* C30: esp_at_receive schedules close_session only at a byte with which
\* the input ends in a complete pattern, and has scheduled it as many times
\* as the input holds complete patterns.
C30_CloseOnlyOnFullMatch ==
    /\ (ev.op = "receive" /\ ev.close) => \E n \in 1..3 : EndsWith(fed, n)
    /\ nclose = Occurrences(fed)

----------------------------------------------------------------------------
(* Claims C31 - C40 *)

\* C31: whenever no candidate is active (cmd = 0: after start, after a full
\* match, and after a candidate was abandoned on a mismatch), a received
\* byte 'C', '+' or 'W' opens the candidate of its pattern and is pushed to
\* nothing: it is held back, not inserted into the ring buffer.
C31_FirstByteOpensCandidate ==
    (ev.op = "receive" /\ ev.cmd0 = 0 /\ ev.c \in { "C", "+", "W" })
        => /\ cmd = (IF ev.c = "C" THEN 1 ELSE IF ev.c = "+" THEN 2 ELSE 3)
           /\ s = 0
           /\ ev.ins = << >>

\* The last call of esp_at_receive found the candidate '+STA_DISCONNECTED:'
\* matched up to its last byte ':' or beyond
PrefixMatched == ev.op = "receive" /\ ev.cmd0 = 2 /\ ev.s0 >= Len(cmds[2]) - 1

\* C32: once the whole prefix '+STA_DISCONNECTED:' is matched, a received
\* byte is pushed nowhere (the ring buffer is as it was); a byte other than
\* the line feed queues nothing and leaves the candidate active; the line
\* feed queues close_session once and resets the scanner to 'no candidate';
\* in an input without an earlier line feed close_session has then been
\* queued exactly once, and not at all before that line feed.
C32_PrefixTailDiscarded ==
    PrefixMatched
        => /\ ev.ins = << >>
           /\ rxbuf = ev.arg.rb
           /\ ev.close = (ev.c = ASCII_LF)
           /\ IF ev.c = ASCII_LF THEN cmd = 0 /\ s = NULL
                                 ELSE cmd = 2 /\ s = Len(cmds[2])
           /\ (\A i \in 1..(Len(fed) - 1) : fed[i] # ASCII_LF)
                 => nclose = (IF ev.c = ASCII_LF THEN 1 ELSE 0)

\* The line feed arrived after the prefix and at least one discarded byte
C32_Witness ==
    /\ PrefixMatched /\ ev.c = ASCII_LF /\ ev.s0 = Len(cmds[2])
    /\ nclose = 1
    /\ Len(fed) >= Len(cmds[2]) + 2
    /\ fed[Len(fed) - 1] # ASCII_LF

\* C33: while a poll of await_connected is pending the budget is between 1
\* and 10; a poll that does not read '>' takes one unit from it, and runs
\* close_session exactly when it takes the last one; and no step other than a
\* poll of await_connected changes the budget while a poll stays pending.
C33_PromptBudget ==
    /\ [](tasks["await_connected"] > 0 => timeout \in 1..PROMPT_POLLS)
    /\ []((ev.op = "await_connected" /\ ev.c # ">")
            => \/ ev.arg.timeout = 1 /\ session_stream = "NULL"
               \/ ev.arg.timeout > 1 /\ timeout = ev.arg.timeout - 1)
    /\ [][ (tasks["await_connected"] > 0 /\ tasks'["await_connected"] > 0
              /\ ev'.op # "await_connected")
              => timeout' = timeout ]_vars

----------------------------------------------------------------------------
(* The station and access-point branches of esp_at_initialize as command    *)
(* sequences: src/esp_at.c:492-679, 722-748                                 *)

\* The settings a branch reads: whether the SSID is empty, the IP mode and
\* whether a hostname is set
Networks == [ ssid : { "", "home" }, ip_mode : { "Static", "DHCP" }, hostname : { "", "grbl" } ]

\* How the module answers the commands of a branch: the line that ends each
\* command's reply ("TIMEOUT": none arrived in time) and, for the join,
\* whether a 'WIFI GOT IP' line came before that end
BranchReplies ==
    [ mode : Replies, ip : Replies, hostname : Replies,
      join : [ gotip : BOOLEAN, end : Replies ], ap : Replies,
      query : Replies, mac : Replies ]

\* One command written to the module: its text up to its parameters, the
\* end of the module's reply, and the value the code derives from the reply
Step(c, end, ok) == [ cmd |-> c, end |-> end, ok |-> ok ]

\* start_sta: src/esp_at.c:508-598.  wifi_set_mode and the two queries yield
\* what is_done stored for the last line read (true only for "OK"); the join
\* yields whether 'WIFI GOT IP' was read before the reply ended.
start_sta(network, r) ==
    IF network.ssid = "" THEN [ ok |-> FALSE, steps |-> << >> ]
    ELSE IF r.mode # "OK"
    THEN [ ok |-> FALSE, steps |-> << Step("AT+CWMODE=1,0", r.mode, FALSE) >> ]
    ELSE LET w1  == << Step("AT+CWMODE=1,0", r.mode, TRUE),
                       Step(IF network.ip_mode = "Static" THEN "AT+CIPSTA=" ELSE "AT+CWDHCP=1,1",
                            r.ip, r.ip = "OK") >>
             ok1 == r.ip = "OK"
             h   == ok1 /\ network.hostname # ""
             w2  == IF h THEN Append(w1, Step("AT+CWHOSTNAME=", r.hostname, r.hostname = "OK")) ELSE w1
             ok2 == IF h THEN r.hostname = "OK" ELSE ok1
             w3  == IF ok2 THEN Append(w2, Step("AT+CWJAP=", r.join.end, r.join.gotip)) ELSE w2
             ok3 == IF ok2 THEN r.join.gotip ELSE ok2
             w4  == IF ok3 THEN Append(w3, Step("AT+CIPSTA?", r.query, r.query = "OK")) ELSE w3
             ok4 == IF ok3 THEN r.query = "OK" ELSE ok3
             w5  == IF ok4 THEN Append(w4, Step("AT+CIPSTAMAC?", r.mac, r.mac = "OK")) ELSE w4
             ok5 == IF ok4 THEN r.mac = "OK" ELSE ok4
         IN  [ ok |-> ok5, steps |-> w5 ]

\* start_ap: src/esp_at.c:600-679
start_ap(network, r) ==
    IF network.ssid = "" THEN [ ok |-> FALSE, steps |-> << >> ]
    ELSE IF r.mode # "OK"
    THEN [ ok |-> FALSE, steps |-> << Step("AT+CWMODE=2", r.mode, FALSE) >> ]
    ELSE LET w1  == << Step("AT+CWMODE=2", r.mode, TRUE),
                       Step(IF network.ip_mode = "Static" THEN "AT+CIPAP=" ELSE "AT+CWDHCP=1,1",
                            r.ip, r.ip = "OK") >>
             ok1 == r.ip = "OK"
             h   == ok1 /\ network.hostname # ""
             w2  == IF h THEN Append(w1, Step("AT+CWHOSTNAME=", r.hostname, r.hostname = "OK")) ELSE w1
             ok2 == IF h THEN r.hostname = "OK" ELSE ok1
             w3  == IF ok2 THEN Append(w2, Step("AT+CWSAP=", r.ap, r.ap = "OK")) ELSE w2
             ok3 == IF ok2 THEN r.ap = "OK" ELSE ok2
             w4  == IF ok3 THEN Append(w3, Step("AT+CIPAP?", r.query, r.query = "OK")) ELSE w3
             ok4 == IF ok3 THEN r.query = "OK" ELSE ok3
             w5  == IF ok4 THEN Append(w4, Step("AT+CIPAPMAC?", r.mac, r.mac = "OK")) ELSE w4
             ok5 == IF ok4 THEN r.mac = "OK" ELSE ok4
         IN  [ ok |-> ok5, steps |-> w5 ]

\* The server-start commands of esp_at_initialize, in their order
ServerCommands == << "AT+CIPMODE=0", "AT+CIPMUX=1", "AT+CIPSERVERMAXCONN=1", "AT+CIPSERVER=1," >>

\* The tail of esp_at_initialize after a branch returned ok, when the first
\* n server-start commands are answered "OK": the commands it writes and
\* whether it schedules await_connect
server_start(ok, n) ==
    IF ~ok THEN [ written |-> << >>, running |-> FALSE ]
    ELSE [ written |-> SubSeq(ServerCommands, 1, IF n < 4 THEN n + 1 ELSE 4),
           running |-> n = 4 ]

\* esp_at_initialize from its switch on the WiFi mode: src/esp_at.c:722-748
ConfigureBranch(r, n) ==
    /\ LET br == IF mode = "STA" THEN start_sta(ev.arg, r) ELSE start_ap(ev.arg, r)
           sv == server_start(br.ok, n)
       IN  /\ ev' = OpEv(IF mode = "STA" THEN "start_sta" ELSE "start_ap", NO_DATA,
                         [ network |-> ev.arg, ok |-> br.ok, steps |-> br.steps,
                           server |-> sv.written ])
           /\ esp_at_running' = sv.running
           /\ tasks' = IF sv.running THEN TaskAdd(tasks, "await_connect") ELSE tasks
           /\ init_ok' = IF sv.running THEN "ok" ELSE "failed"
    /\ UNCHANGED << rxbuf, enqueue_realtime_command, cmd, s, rt_handler, session_stream,
                    timeout, buf, idx, mode, fed, got, base, pending, nclose, free, drv >>

InitBranch ==
    /\ rxbuf = [ data |-> [ i \in 0..(RX_BUFFER_SIZE - 1) |-> NUL ],
                 head |-> 0, tail |-> 0, overflow |-> 0 ]
    /\ enqueue_realtime_command = "protocol_enqueue_realtime_command"
    /\ cmd = 0
    /\ s = NULL
    /\ rt_handler = "stream_buffer_all"
    /\ session_stream = "NULL"
    /\ timeout = INIT_DELAY + SEND_TIMEOUT
    /\ esp_at_running = FALSE
    /\ buf = << "O", "K", NUL >>
    /\ idx = 0
    /\ tasks = NoTasks
    /\ mode \in { "STA", "AP" }
    /\ fed = << >>
    /\ got = << >>
    /\ base = << >>
    /\ pending = << >>
    /\ nclose = 0
    /\ \E network \in Networks : ev = OpEv("settings", NO_DATA, network)
    /\ init_ok = "pending"
    /\ free = 0
    /\ drv = DrvIdle

NextBranch ==
    /\ ev.op = "settings"
    /\ \E r \in BranchReplies : \E n \in 0..4 : ConfigureBranch(r, n)

SpecBranch == InitBranch /\ [][NextBranch]_vars

\* The last step run was a station or access-point branch
BranchRan == ev.op \in { "start_sta", "start_ap" }

\* C34: with an empty SSID a branch writes nothing, and a command
\* whose reply does not end with 'OK' is the last command the branch writes;
\* in both cases the branch returns false and esp_at_initialize writes no
\* server-start command.
C34_EarlyExitOnReply ==
    BranchRan
        => /\ ev.arg.network.ssid = ""
                => ev.arg.steps = << >> /\ ~ev.arg.ok /\ ev.arg.server = << >>
           /\ \A k \in 1..Len(ev.arg.steps) :
                ev.arg.steps[k].end # "OK"
                    => k = Len(ev.arg.steps) /\ ~ev.arg.ok /\ ev.arg.server = << >>

----------------------------------------------------------------------------
(* Listening, with a long line in the line buffer: src/esp_at.c:455-490 *)

\* A line of BUF_SIZE - 2 payload bytes, read by await_connect so far
LongLine == [ k \in 1..(BUF_SIZE - 2) |-> "x" ]

\* A further byte of a line that has reached the end of buf
ProbeLong == IF idx >= BUF_SIZE - 2 THEN { "x" } ELSE { }

\* A run of await_connect, with fed recording the bytes it has read of the
\* current line, the line feed that ends the line included
AwaitConnectLine(c, spend) ==
    /\ AwaitConnectRun(c, spend)
    /\ fed' = IF c = NO_DATA THEN fed
              ELSE IF fed # << >> /\ fed[Len(fed)] = ASCII_LF THEN << c >>
              ELSE Append(fed, c)

InitLine ==
    /\ rxbuf = [ data |-> [ i \in 0..(RX_BUFFER_SIZE - 1) |-> NUL ],
                 head |-> 0, tail |-> 0, overflow |-> 0 ]
    /\ enqueue_realtime_command = "protocol_enqueue_realtime_command"
    /\ cmd = 0
    /\ s = NULL
    /\ rt_handler = "stream_buffer_all"
    /\ session_stream = "NULL"
    /\ timeout = INIT_DELAY + SEND_TIMEOUT
    /\ esp_at_running = TRUE
    /\ buf = LongLine
    /\ idx = BUF_SIZE - 2
    /\ tasks = [ NoTasks EXCEPT !["await_connect"] = 1 ]
    /\ mode \in { "STA", "AP" }
    /\ fed = LongLine
    /\ got = << >>
    /\ base = << >>
    /\ pending = << >>
    /\ nclose = 0
    /\ ev = OpEv("await_connect", "x",
                 [ match |-> FALSE, m1 |-> "OK", m2 |-> "OK", sc |-> TRUE,
                   tasks |-> [ NoTasks EXCEPT !["await_connect"] = 1 ],
                   delay |-> << await_connect_delay("x") >> ])
    /\ init_ok = "ok"
    /\ free = MaxInput
    /\ drv = DrvIdle

\* The bytes that continue the current line; a carriage return comes once
LineNext ==
    IF fed # << >> /\ fed[Len(fed)] = ASCII_CR THEN ConnectNext \ { ASCII_CR } ELSE ConnectNext

NextLine ==
    /\ tasks["await_connect"] > 0
    /\ \/ \E c \in { NO_DATA } \cup LineNext : AwaitConnectLine(c, 0)
       \/ \E c \in ProbeLine \cup ProbeLong : AwaitConnectLine(c, 1)

SpecLine == InitLine /\ [][NextLine]_vars

\* C35: when await_connect takes a line for the connect announcement (and
\* issues AT+CIPMODE=1), the line it has read from the module, from the byte
\* after the previous line feed on, is '0,CONNECT' followed by its line end.
C35_OnlyConnectLine ==
    (ev.op = "await_connect" /\ ev.arg.match)
        => fed \in { ConnectLine \o << ASCII_LF >>, ConnectLine \o << ASCII_CR, ASCII_LF >> }

\* The place in drv.lines of the result of get_reply that ended the join
\* loop of start_sta: the first that is NULL, 'OK' or begins with 'ERROR'
JoinEnd ==
    CHOOSE k \in 1..Len(drv.lines) :
        /\ drv.lines[k].s = << NUL >> \/ is_done(drv.lines[k].s).done
        /\ \A j \in 1..(k - 1) :
              ~(drv.lines[j].s = << NUL >> \/ is_done(drv.lines[j].s).done)

\* C36: when the join step of start_sta has ended with ok = true, the result
\* of get_reply that ended it is the line 'OK': not a line that begins with
\* 'ERROR' and not the NULL of a timeout.
C36_JoinNeedsOK ==
    drv.joined = "true" => drv.lines[JoinEnd].s = OK

\* n payload bytes
Xs(n) == [ k \in 1..n |-> "x" ]

\* How many further bytes atStream_rx_insert stores in rb before it flags
\* overflow (bytes the realtime predicate does not claim)
Room(rb) ==
    LET clear == [ rb EXCEPT !.overflow = 0 ]
    IN  CHOOSE n \in 0..RX_BUFFER_SIZE :
            /\ InsertAll(clear, "stream_buffer_all", Xs(n)).overflow = 0
            /\ InsertAll(clear, "stream_buffer_all", Xs(n + 1)).overflow = 1

\* C37: in every state of the ring buffer, get_rx_buffer_free (atStreamRxFree)
\* returns the number of further bytes that can be pushed without setting
\* the overflow flag.
C37_FreeIsRoom ==
    atStreamRxFree(rxbuf) = Room(rxbuf)

----------------------------------------------------------------------------
(* The ring buffer under preemption: the receive interrupt pushes between   *)
(* any two memory accesses of the foreground's atStreamGetC, atStreamRxFlush *)
(* and atStreamRxCancel: src/esp_at.c:141-154, 197-208, 230-242             *)

\* The bytes the interrupt pushes, each once, in this order
RaceBytes == << "a", "b", "d", "e" >>

\* The foreground inside function fn, having made pc memory accesses, with
\* the index it read last in reg
Inside(fn, pc, reg) == [ fn |-> fn, pc |-> pc, reg |-> reg, data |-> NUL ]

\* The interrupt: esp_at_receive with the next byte
Push ==
    /\ Len(fed) < Len(RaceBytes)
    /\ Receive(RaceBytes[Len(fed) + 1], 1)

\* The variables no access of the foreground to the ring buffer changes
RaceFrame ==
    UNCHANGED << enqueue_realtime_command, cmd, s, rt_handler, session_stream,
                 timeout, esp_at_running, buf, idx, tasks, mode,
                 fed, base, pending, nclose, init_ok >>

\* atStreamRxCancel, one memory access at a time: src/esp_at.c:149-154
CancelAccess ==
    /\ \/ /\ drv.fn = "idle" /\ free >= 1
          /\ free' = free - 1
          /\ drv' = Inside("atStreamRxCancel", 1, rxbuf.head)
          /\ UNCHANGED rxbuf
       \/ /\ drv.fn = "atStreamRxCancel" /\ drv.pc = 1
          /\ rxbuf' = [ rxbuf EXCEPT !.data[drv.reg] = ASCII_CAN ]
          /\ drv' = [ drv EXCEPT !.pc = 2 ]
          /\ UNCHANGED free
       \/ /\ drv.fn = "atStreamRxCancel" /\ drv.pc \in { 2, 4 }
          /\ drv' = [ drv EXCEPT !.pc = @ + 1, !.reg = rxbuf.head ]
          /\ UNCHANGED << rxbuf, free >>
       \/ /\ drv.fn = "atStreamRxCancel" /\ drv.pc = 3
          /\ rxbuf' = [ rxbuf EXCEPT !.tail = drv.reg ]
          /\ drv' = [ drv EXCEPT !.pc = 4 ]
          /\ UNCHANGED free
       \/ /\ drv.fn = "atStreamRxCancel" /\ drv.pc = 5
          /\ rxbuf' = [ rxbuf EXCEPT !.head = BUFNEXT(drv.reg) ]
          /\ drv' = DrvIdle
          /\ UNCHANGED free
    /\ ev' = OpEv("atStreamRxCancel", NO_DATA, [ returned |-> drv'.fn = "idle" ])
    /\ UNCHANGED got
    /\ RaceFrame

\* atStreamRxFlush, one memory access at a time: src/esp_at.c:141-144
FlushAccess ==
    /\ \/ /\ drv.fn = "idle" /\ free >= 1
          /\ free' = free - 1
          /\ drv' = Inside("atStreamRxFlush", 1, rxbuf.head)
          /\ UNCHANGED rxbuf
       \/ /\ drv.fn = "atStreamRxFlush" /\ drv.pc = 1
          /\ rxbuf' = [ rxbuf EXCEPT !.tail = drv.reg ]
          /\ drv' = DrvIdle
          /\ UNCHANGED free
    /\ ev' = OpEv("atStreamRxFlush", NO_DATA, [ returned |-> drv'.fn = "idle" ])
    /\ UNCHANGED got
    /\ RaceFrame

\* atStreamGetC, one memory access at a time: src/esp_at.c:197-208
GetCAccess ==
    /\ \/ /\ drv.fn = "idle" /\ free >= 1
          /\ free' = free - 1
          /\ drv' = Inside("atStreamGetC", 1, rxbuf.tail)
          /\ UNCHANGED << rxbuf, got >>
          /\ ev' = OpEv("atStreamGetC", NO_DATA, [ returned |-> FALSE ])
       \/ /\ drv.fn = "atStreamGetC" /\ drv.pc = 1
          /\ drv' = IF drv.reg = rxbuf.head THEN DrvIdle ELSE [ drv EXCEPT !.pc = 2 ]
          /\ UNCHANGED << rxbuf, got, free >>
          /\ ev' = OpEv("atStreamGetC", NO_DATA, [ returned |-> drv.reg = rxbuf.head ])
       \/ /\ drv.fn = "atStreamGetC" /\ drv.pc = 2
          /\ drv' = [ drv EXCEPT !.pc = 3, !.data = rxbuf.data[drv.reg] ]
          /\ UNCHANGED << rxbuf, got, free >>
          /\ ev' = OpEv("atStreamGetC", NO_DATA, [ returned |-> FALSE ])
       \/ /\ drv.fn = "atStreamGetC" /\ drv.pc = 3
          /\ rxbuf' = [ rxbuf EXCEPT !.tail = BUFNEXT(drv.reg) ]
          /\ got' = Append(got, drv.data)
          /\ drv' = DrvIdle
          /\ UNCHANGED free
          /\ ev' = OpEv("atStreamGetC", drv.data, [ returned |-> TRUE ])
    /\ RaceFrame

\* A session in which the consumer has read the CAN that await_connected
\* left in the ring buffer
InitRace ==
    /\ rxbuf = atStreamGetC(
                  atStreamRxCancel([ data |-> [ i \in 0..(RX_BUFFER_SIZE - 1) |-> NUL ],
                                     head |-> 0, tail |-> 0, overflow |-> 0 ])).rb
    /\ base = << >>
    /\ pending = << >>
    /\ enqueue_realtime_command = "protocol_enqueue_realtime_command"
    /\ cmd = 0
    /\ s = NULL
    /\ rt_handler = "esp_at_receive"
    /\ session_stream = "telnet_stream"
    /\ timeout = 10
    /\ esp_at_running = TRUE
    /\ buf = << "O", "K", NUL, "O", "N", "N", "E", "C", "T", NUL >>
    /\ idx = 0
    /\ tasks = NoTasks
    /\ mode = "STA"
    /\ fed = << >>
    /\ got = << >>
    /\ nclose = 0
    /\ init_ok = "ok"
    /\ ev = Ev("getc", ASCII_CAN, 0, NULL, << >>, FALSE, << >>)
    /\ free = MaxPush
    /\ drv = DrvIdle

NextRace ==
    \/ Push
    \/ CancelAccess
    \/ FlushAccess
    \/ GetCAccess

SpecRace == InitRace /\ [][NextRace]_vars

\* C38: under every interleaving of the interrupt's pushes with the memory
\* accesses of the foreground's read, flush and cancel, every byte
\* atStreamGetC has returned is a byte the producer pushed or the CAN of a
\* cancel, the pushed bytes are returned in the order of their pushes, and
\* when atStreamRxCancel returns the next byte to read is the CAN.
C38_PreemptionSafe ==
    /\ \A i \in 1..Len(got) :
          got[i] = ASCII_CAN \/ \E j \in 1..Len(fed) : fed[j] = got[i]
    /\ \A i \in 1..Len(got) : \A j \in (i + 1)..Len(got) :
          (Pos(fed, got[i]) > 0 /\ Pos(fed, got[j]) > 0)
              => Pos(fed, got[i]) < Pos(fed, got[j])
    /\ (ev.op = "atStreamRxCancel" /\ ev.arg.returned)
          => /\ Unread(rxbuf) # << >>
             /\ Unread(rxbuf)[1] = ASCII_CAN

\* The length of the longest pattern of the scanner
LongestPattern == Len(cmds[2])

\* The last call of esp_at_receive ran the replay loop
Replayed == ev.op = "receive" /\ ev.cmd0 # 0 /\ ev.ins # << >>

\* C39: after any sequence of received bytes the candidate is one of the
\* three patterns or none; with a candidate active the cursor s is not NULL
\* and lies within the pattern's string, at most at its terminating NUL; and
\* when a call has replayed, its replay loop has ended on reaching s, after
\* pushing the bytes of the pattern before s, at most as many as the longest
\* pattern has bytes less one, and the mismatching byte was pushed after them.
C39_ScannerInvariant ==
    /\ cmd \in 0..3
    /\ cmd # 0 => s # NULL /\ s \in 0..Len(cmds[cmd])
    /\ Replayed
          => LET r == replay_loop(ev.cmd0, 0, ev.s0 + 1, << >>)
             IN  /\ r.ends
                 /\ ev.ins = r.bytes \o << ev.c >>
                 /\ Len(r.bytes) \in 1..(LongestPattern - 1)

\* The longest replay: '+STA_DISCONNECTED' and a byte that is not ':', with
\* the candidate given up and the cursor left in the pattern
C39_Witness ==
    /\ Replayed /\ ev.cmd0 = 2
    /\ Len(ev.ins) = LongestPattern
    /\ cmd = 0 /\ s = LongestPattern - 1

----------------------------------------------------------------------------
(* The IP settings: validate_ip and wifi_set_ip, src/esp_at.c:793-869 *)

\* The most parts, separated by '.', a value offered to wifi_set_ip has
MaxParts == 4

\* sizeof(esp_at_settings.sta.ip)
IP_SIZE == 16

Digits == { "0", "2", "5" }

DigitVal(c) == IF c = "0" THEN 0 ELSE IF c = "2" THEN 2 ELSE 5

\* What stands between the dots of the values offered
IpParts ==
    { << >>, << "2" >>, << "2", "5", "5" >>, << "5", "5", "5" >>, << "a" >>,
      << " ", "2" >>, << "0", "2", "5", "5" >> }

\* The parts ps joined with '.'
RECURSIVE JoinParts(_)
JoinParts(ps) ==
    IF Len(ps) = 1 THEN ps[1] ELSE ps[1] \o << "." >> \o JoinParts(Tail(ps))

IpValues == UNION { { JoinParts(ps) : ps \in [ 1..n -> IpParts ] } : n \in 1..MaxParts }

\* The settings wifi_set_ip handles
IpSettings == { "Setting_IpAddress3", "Setting_Gateway3", "Setting_NetMask3",
                "Setting_IpAddress2", "Setting_Gateway2", "Setting_NetMask2" }

\* strchr(q + from, ch) as an offset into the string q, NULL when ch is not
\* found; ch = NUL finds the terminator; a search that starts beyond the
\* terminator finds nothing the caller uses
StrChr(q, from, ch) ==
    IF from > Len(q) THEN NULL
    ELSE IF ch = NUL THEN Len(q)
    ELSE LET K == { k \in from..(Len(q) - 1) : q[k + 1] = ch }
         IN  IF K = { } THEN NULL ELSE CHOOSE k \in K : \A j \in K : k <= j

\* The value of the n digits of q from offset pos on
RECURSIVE NumVal(_, _, _)
NumVal(q, pos, n) == IF n = 0 THEN 0 ELSE NumVal(q, pos, n - 1) * 10 + DigitVal(q[pos + n])

\* read_uint of the core on the string q from offset pos on: the decimal
\* digits there, Status_BadNumberFormat when there is none
read_uint(q, pos) ==
    LET stops == { k \in pos..Len(q) : k = Len(q) \/ q[k + 1] \notin Digits }
        n     == (CHOOSE k \in stops : \A j \in stops : k <= j) - pos
    IN  IF n = 0 THEN [ status |-> "Status_BadNumberFormat", pos |-> pos, res |-> 0 ]
        ELSE [ status |-> "Status_OK", pos |-> pos + n, res |-> NumVal(q, pos, n) ]

\* The loop of validate_ip over the octets, src/esp_at.c:810-826: n is its
\* idx, e its s as the offset of the '.' (or of the terminator) that ends
\* octet n, pos the offset where the octet begins
RECURSIVE validate_loop(_, _, _, _)
validate_loop(q, n, pos, e) ==
    IF e = NULL \/ n >= 4 THEN TRUE
    ELSE LET r == read_uint(SubSeq(q, 1, e), pos)
         IN  IF r.status = "Status_OK" /\ r.res <= 255
             THEN IF (IF r.pos < Len(q) THEN q[r.pos + 1] ELSE NUL)
                        # (IF n = 3 THEN NUL ELSE ".")
                  THEN FALSE
                  ELSE validate_loop(q, n + 1, e + 1,
                                     StrChr(q, e + 1, IF n + 1 = 3 THEN NUL ELSE "."))
             ELSE FALSE

\* validate_ip: the result, and the string it leaves in place of a value it
\* accepts (the spaces are removed in the caller's buffer)
validate_ip(ip) ==
    LET q == SelectSeq(ip, LAMBDA c : c # " ")
    IN  IF ~(StrChr(ip, 0, ".") # NULL \/ Len(ip) < IP_SIZE)
        THEN [ ok |-> FALSE, value |-> ip ]
        ELSE [ ok |-> validate_loop(q, 0, 0, StrChr(q, 0, ".")), value |-> q ]

\* wifi_set_ip: the status, the settings after the call, and whether strcpy
\* wrote beyond the 16 bytes of the field
wifi_set_ip(setting, value, settings) ==
    LET v == validate_ip(value)
    IN  IF v.ok
        THEN IF setting \in IpSettings
             THEN [ status |-> "Status_OK",
                    settings |-> [ settings EXCEPT ![setting] = v.value ],
                    overrun |-> Len(v.value) >= IP_SIZE ]
             ELSE [ status |-> "Status_Unhandled", settings |-> settings, overrun |-> FALSE ]
        ELSE [ status |-> "Status_InvalidStatement", settings |-> settings, overrun |-> FALSE ]

\* The settings store calls wifi_set_ip with the value the user entered
WifiSetIp ==
    /\ ev.op = "setting"
    /\ LET r == wifi_set_ip(ev.arg.setting, ev.arg.value, ev.arg.settings)
       IN  ev' = OpEv("wifi_set_ip", NO_DATA,
                      [ setting |-> ev.arg.setting, value |-> ev.arg.value,
                        before |-> ev.arg.settings, settings |-> r.settings,
                        status |-> r.status, overrun |-> r.overrun ])
    /\ UNCHANGED << rxbuf, enqueue_realtime_command, cmd, s, rt_handler, session_stream,
                    timeout, esp_at_running, buf, idx, tasks, mode,
                    fed, got, base, pending, nclose, init_ok, free, drv >>

InitIp ==
    /\ rxbuf = [ data |-> [ i \in 0..(RX_BUFFER_SIZE - 1) |-> NUL ],
                 head |-> 0, tail |-> 0, overflow |-> 0 ]
    /\ enqueue_realtime_command = "protocol_enqueue_realtime_command"
    /\ cmd = 0
    /\ s = NULL
    /\ rt_handler = "stream_buffer_all"
    /\ session_stream = "NULL"
    /\ timeout = 0
    /\ esp_at_running = FALSE
    /\ buf = << >>
    /\ idx = 0
    /\ tasks = NoTasks
    /\ mode = "STA"
    /\ fed = << >>
    /\ got = << >>
    /\ base = << >>
    /\ pending = << >>
    /\ nclose = 0
    /\ \E value \in IpValues :
       \E setting \in { "Setting_IpAddress3", "Setting_NetMask2" } :
          ev = OpEv("setting", NO_DATA,
                    [ setting |-> setting, value |-> value,
                      settings |-> [ id \in IpSettings |-> << "2", ".", "2", ".", "2", ".", "2" >> ] ])
    /\ init_ok = "pending"
    /\ free = 0
    /\ drv = DrvIdle

NextIp == WifiSetIp

SpecIp == InitIp /\ [][NextIp]_vars

\* q is four decimal octets, each at most 255, separated by '.', and has at
\* most 15 characters
WellFormed(q) ==
    LET dots   == { k \in 1..Len(q) : q[k] = "." }
        ends   == dots \cup { Len(q) + 1 }
        starts == { 1 } \cup { k + 1 : k \in dots }
    IN  /\ Len(q) <= IP_SIZE - 1
        /\ Cardinality(dots) = 3
        /\ \A a \in starts :
              LET b == CHOOSE e \in ends : e >= a /\ \A f \in ends : f >= a => e <= f
              IN  /\ b > a
                  /\ \A k \in a..(b - 1) : q[k] \in Digits
                  /\ NumVal(q, a - 1, b - a) <= 255

\* C40: wifi_set_ip stores a value only if it is (its spaces taken out) a
\* well-formed dotted-quad address of at most 15 characters; for every other
\* value it returns Status_InvalidStatement and the stored settings are as
\* they were.
C40_OnlyWellFormedStored ==
    (ev.op = "wifi_set_ip" /\ ~WellFormed(SelectSeq(ev.arg.value, LAMBDA c : c # " ")))
        => /\ ev.arg.status = "Status_InvalidStatement"
           /\ ev.arg.settings = ev.arg.before

====
